---- MODULE Spec2Model ----
(***************************************************************************)
(* A model of empress-core: the entity / component / rarity / filtering    *)
(* engine (Entity, ComponentCollection, ComponentsRaritySorter,            *)
(* EntityStorage) and the execution scheduler (SystemChain, SystemGroup,   *)
(* ExecutionQueue, ExecutionController).                                   *)
(*                                                                         *)
(* Specifications:                                                         *)
(*   Spec        the execution controller and its queues                   *)
(*   SpecEntity  entities, component collections and the rarity tracker    *)
(*   SpecFilter  EntityStorage.filter over entities built by the same      *)
(*               operations                                                *)
(*   SpecRarity  the add / disable / remove scenario on one component type *)
(*   SpecFailFast, SpecUnknown, SpecSetup  the same operations with the    *)
(*               failing calls, unknown queue ids, create() alone          *)
(*   SpecTraversal  Filtered.sequential and Filtered.parallel              *)
(*   SpecChain, SpecOrder, SpecSorted  the calls of a setup() on its       *)
(*               SystemChain, the sorted() that orders by number, and      *)
(*               a group of either kind                                    *)
(*   SpecPair    two queues side by side                                   *)
(*   SpecLive    one queue run once and never stopped, with fairness       *)
(*   SpecSignal  Signal: subscribe, once, unsubscribe and dispatch         *)
(*   SpecLifeCycle  LifeCycle: start, pause and the animation frames       *)
(***************************************************************************)
EXTENDS Integers, Sequences, FiniteSets, TLC

VARIABLES
    entities,   \* entity object -> [active, components, disabledComponents]
    freq,       \* ComponentsRaritySorter._componentFrequency (a partial map)
    storage,    \* EntityStorage._entities: the registered ids, in insertion order
    thrown,     \* what the last entity / storage call threw ("none" when it returned)
    filtered,   \* the last EntityStorage.filter call: its argument and its result
    scn,        \* position in the rarity scenario (SpecRarity only)
    uuids,      \* how many ids Utils.uuid() has handed out
    chains,     \* GroupsContainer._cache: group class -> its instance (uuid, chain)
    queues,     \* the ExecutionQueue objects, by id
    registry,   \* ExecutionController._queues: the ids registered
    systems,    \* SystemsContainer._cache: system class -> the instance's context
    runs,       \* the run() calls made so far, each with its position in execute()
    stack,      \* the runs whose synchronous code is on the call stack, innermost last
    aborted,    \* the AbortControllers that were aborted
    hist,       \* per queue: what was set up, started and called (observation only)
    iter,       \* the traversal of a Filtered result: the callbacks invoked so far
    chain,      \* a SystemChain under construction and what sorted() returned
    sgn,        \* a Signal: its listeners and the dispatch() calls in progress
    life        \* the LifeCycle: its flags, the frame requested and the updates made

entityVars == <<entities, freq, storage, thrown, filtered, scn>>

execVars == <<uuids, chains, queues, registry, systems, runs, stack, aborted, hist>>

iterVars == <<iter>>

auxVars == <<chain, sgn, life>>

vars == <<entities, freq, storage, thrown, filtered, scn,
          uuids, chains, queues, registry, systems, runs, stack, aborted, hist, iter,
          chain, sgn, life>>

----------------------------------------------------------------------------
(* Component types.  A component is identified by its constructor; get()   *)
(* and has() match with instanceof, so a constructor's base classes count. *)

Ctors == {"Position", "Position3D"}

\* class Position3D extends Position
Extends(c) == IF c = "Position3D" THEN "Position" ELSE "none"

InstanceOf(c, type) == c = type \/ Extends(c) = type

Undefined == "undefined"

----------------------------------------------------------------------------
(* ComponentCollection: an array of components.                            *)

CollectionSet(items, component) == Append(items, component)

RECURSIVE CollectionGet(_, _)
CollectionGet(items, type) ==
    IF items = <<>> THEN Undefined
    ELSE IF InstanceOf(Head(items), type) THEN Head(items)
    ELSE CollectionGet(Tail(items), type)

CollectionHas(items, type) == CollectionGet(items, type) # Undefined

NotConstructor(c, type) == c # type

CollectionDelete(items, type) ==
    IF CollectionGet(items, type) # Undefined
    THEN SelectSeq(items, LAMBDA c : NotConstructor(c, type))
    ELSE items

CollectionClear(items) == <<>>

----------------------------------------------------------------------------
(* ComponentsRaritySorter: a map from component type to a count.           *)

rarity(f, component) == IF component \in DOMAIN f THEN f[component] ELSE 0

increment(f, component) ==
    LET currentCount == rarity(f, component)
    IN  [t \in DOMAIN f \cup {component} |->
            IF t = component THEN currentCount + 1 ELSE f[t]]

\* decrement that stores the count it reaches instead of deleting the entry.
decrementKeepsZero(f, component) ==
    LET currentCount == rarity(f, component)
    IN  IF currentCount > 0
        THEN [f EXCEPT ![component] = currentCount - 1]
        ELSE f

decrement(f, component) ==
    LET currentCount == rarity(f, component)
    IN  IF currentCount > 1
        THEN [f EXCEPT ![component] = currentCount - 1]
        ELSE [t \in DOMAIN f \ {component} |-> f[t]]

\* Array.prototype.sort with the comparator rarity(a) - rarity(b): stable.
RECURSIVE InsertByRarity(_, _, _)
InsertByRarity(f, sorted, c) ==
    IF sorted = <<>> THEN <<c>>
    ELSE IF rarity(f, Head(sorted)) <= rarity(f, c)
         THEN <<Head(sorted)>> \o InsertByRarity(f, Tail(sorted), c)
         ELSE <<c>> \o sorted

RECURSIVE sortByRarity(_, _)
sortByRarity(f, components) ==
    IF components = <<>> THEN <<>>
    ELSE InsertByRarity(f, sortByRarity(f, SubSeq(components, 1, Len(components) - 1)),
                        components[Len(components)])

----------------------------------------------------------------------------
(* Entity.  Each operation takes the entity and the tracker and returns    *)
(* the entity and the tracker after the call, and what the call threw.     *)

NewEntity == [active |-> TRUE, components |-> <<>>, disabledComponents |-> <<>>]

Outcome(ent, f, err) == [entity |-> ent, freq |-> f, thrown |-> err]

addComponent(ent, f, ctor, enabled) ==
    IF CollectionHas(ent.components, ctor) \/ CollectionHas(ent.disabledComponents, ctor)
    THEN Outcome(ent, f, "DuplicateComponent")
    ELSE IF enabled
         THEN Outcome([ent EXCEPT !.components = CollectionSet(@, ctor)],
                      increment(f, ctor), "none")
         ELSE Outcome([ent EXCEPT !.disabledComponents = CollectionSet(@, ctor)],
                      decrement(f, ctor), "none")

getComponent(ent, f, ctor) ==
    IF CollectionGet(ent.components, ctor) = Undefined
    THEN Outcome(ent, f, "ComponentNotFound")
    ELSE Outcome(ent, f, "none")

hasComponents(ent, types) ==
    \A i \in 1..Len(types) : CollectionGet(ent.components, types[i]) # Undefined

\* removeComponent that lowers the count before it looks for the component.
removeComponentCountsFirst(ent, f, ctor) ==
    IF CollectionHas(ent.components, ctor)
    THEN Outcome([ent EXCEPT !.components = CollectionDelete(@, ctor)],
                 decrement(f, ctor), "none")
    ELSE IF CollectionHas(ent.disabledComponents, ctor)
         THEN Outcome([ent EXCEPT !.disabledComponents = CollectionDelete(@, ctor)],
                      decrement(f, ctor), "none")
         ELSE Outcome(ent, decrement(f, ctor), "ComponentNotFound")

removeComponent(ent, f, ctor) ==
    IF CollectionHas(ent.components, ctor)
    THEN Outcome([ent EXCEPT !.components = CollectionDelete(@, ctor)],
                 decrement(f, ctor), "none")
    ELSE IF CollectionHas(ent.disabledComponents, ctor)
         THEN Outcome([ent EXCEPT !.disabledComponents = CollectionDelete(@, ctor)],
                      decrement(f, ctor), "none")
         ELSE Outcome(ent, f, "ComponentNotFound")

enableComponent(ent, f, ctor) ==
    IF ~CollectionHas(ent.disabledComponents, ctor)
    THEN Outcome(ent, f, "ComponentState")
    ELSE LET comp == CollectionGet(ent.disabledComponents, ctor)
         IN  Outcome([ent EXCEPT
                         !.disabledComponents = CollectionDelete(@, ctor),
                         !.components = CollectionSet(@, comp)],
                     increment(f, ctor), "none")

disableComponent(ent, f, ctor) ==
    IF ~CollectionHas(ent.components, ctor)
    THEN Outcome(ent, f, "ComponentState")
    ELSE LET comp == CollectionGet(ent.components, ctor)
         IN  Outcome([ent EXCEPT
                         !.components = CollectionDelete(@, ctor),
                         !.disabledComponents = CollectionSet(@, comp)],
                     decrement(f, ctor), "none")

RECURSIVE DecrementAll(_, _)
DecrementAll(f, items) ==
    IF items = <<>> THEN f ELSE DecrementAll(decrement(f, Head(items)), Tail(items))

RECURSIVE IncrementAll(_, _)
IncrementAll(f, items) ==
    IF items = <<>> THEN f ELSE IncrementAll(increment(f, Head(items)), Tail(items))

disableAllComponents(ent, f) ==
    Outcome([ent EXCEPT
                !.disabledComponents = @ \o ent.components,
                !.components = CollectionClear(@)],
            DecrementAll(f, ent.components), "none")

enableAllComponents(ent, f) ==
    Outcome([ent EXCEPT
                !.components = @ \o ent.disabledComponents,
                !.disabledComponents = CollectionClear(@)],
            IncrementAll(f, ent.disabledComponents), "none")

\* A ComponentFilter: includes, and excludes when the caller gave the field.
Filter(includes, excludes, hasExcludes) ==
    [includes |-> includes, excludes |-> excludes, hasExcludes |-> hasExcludes]

\* isSatisfiedFilter without the test for an empty excludes list.
isSatisfiedFilterNoLengthTest(ent, filter) ==
    LET includes == filter.includes
        excludes == IF filter.hasExcludes THEN filter.excludes ELSE <<>>
    IN  hasComponents(ent, includes) /\ ~hasComponents(ent, excludes)

isSatisfiedFilter(ent, filter) ==
    LET includes == filter.includes
        excludes == IF filter.hasExcludes THEN filter.excludes ELSE <<>>
    IN  hasComponents(ent, includes)
        /\ (Len(excludes) = 0 \/ ~hasComponents(ent, excludes))

----------------------------------------------------------------------------
(* compileFilter and EntityStorage.                                        *)

\* compileFilter that tests the excludes list even when none was passed.
compileFilterNoUndefinedTest(includes, excludes, hasExcludes, ent) ==
    IF ~hasComponents(ent, includes) THEN FALSE
    ELSE IF hasComponents(ent, excludes) THEN FALSE
    ELSE TRUE

\* A predicate that looks at the first type of each list only.
compileFilterFirstOnly(includes, excludes, hasExcludes, ent) ==
    IF includes # <<>> /\ ~hasComponents(ent, <<Head(includes)>>) THEN FALSE
    ELSE IF hasExcludes /\ excludes # <<>> /\ hasComponents(ent, <<Head(excludes)>>)
         THEN FALSE
    ELSE TRUE

compileFilter(includes, excludes, hasExcludes, ent) ==
    IF ~hasComponents(ent, includes) THEN FALSE
    ELSE IF hasExcludes /\ hasComponents(ent, excludes) THEN FALSE
    ELSE TRUE

addEntity(store, e) ==
    IF \E i \in 1..Len(store) : store[i] = e
    THEN [storage |-> store, thrown |-> "DuplicateEntity"]
    ELSE [storage |-> Append(store, e), thrown |-> "none"]

NotEntity(x, e) == x # e

removeEntity(store, e) == SelectSeq(store, LAMBDA x : NotEntity(x, e))

getAllEntities(ents, store) == store

IsActive(ents, e) == ents[e].active

getActiveEntities(ents, store) == SelectSeq(store, LAMBDA e : IsActive(ents, e))

\* EntityStorage.filter: the list wrapped by the Filtered result, and the
\* caller's filter object after the call (a missing excludes is set to []).
EntityStorageFilter(ents, store, f, filter, withDisabled) ==
    LET allEntities == IF withDisabled THEN getAllEntities(ents, store)
                                       ELSE getActiveEntities(ents, store)
        excludes == IF filter.hasExcludes THEN filter.excludes ELSE <<>>
        after == Filter(filter.includes, excludes, TRUE)
    IN  IF Len(filter.includes) > 0 \/ Len(excludes) > 0
        THEN LET sortedIncludes == sortByRarity(f, filter.includes)
                 sortedExcludes == IF Len(excludes) > 0
                                   THEN sortByRarity(f, excludes) ELSE <<>>
                 hasSortedExcludes == Len(excludes) > 0
             IN  [items |-> SelectSeq(allEntities,
                                LAMBDA e : compileFilter(sortedIncludes, sortedExcludes,
                                                         hasSortedExcludes, ents[e])),
                  filter |-> after]
        ELSE [items |-> allEntities, filter |-> after]

----------------------------------------------------------------------------
(* The entity and storage operations as actions.                           *)

NoFilter == [called |-> FALSE]

NoScenario == [phase |-> "off"]

\* No traversal of a Filtered result was started.
NoTraversal == [mode |-> "none"]

\* A SystemChain as constructed, with nothing asked of it yet: its
\* providers, the list kept beside it by the list operations the calls
\* stand for, the number of calls made and what sorted() handed out last.
NewChain == [providers |-> <<>>, uuids |-> 0, ref |-> <<>>, calls |-> 0,
             handed |-> <<>>, sortedCalled |-> FALSE]

\* A Signal as constructed: no listeners, no dispatch in progress.
\* A new Signal: no listener. dispatches are the dispatch() calls made,
\* invoked the number of times each callback was called, and onceCallbacks
\* the callbacks given to once().
NewSignal == [listeners |-> <<>>, dispatches |-> <<>>, invoked |-> <<>>,
              onceCallbacks |-> {}]

\* The LifeCycle as constructed.
\* A new LifeCycle. requested is the number of animation frames asked for
\* and not yet delivered, now the time of the last frame of the page,
\* updates the number of calls of the update callbacks, and missed tells
\* that animate() was called while paused.
NewLifeCycle == [started |-> FALSE, paused |-> FALSE, lastTime |-> 0,
                 requested |-> 0, now |-> 0, updates |-> 0, missed |-> FALSE]

InitAux == chain = NewChain /\ sgn = NewSignal /\ life = NewLifeCycle

\* The largest count the tracker is followed to.
MaxCount == 3

\* The longest component array an entity is followed to.
MaxItems == 2

Apply(e, out) ==
    /\ \A t \in DOMAIN out.freq : out.freq[t] <= MaxCount
    /\ Len(out.entity.components) <= MaxItems
    /\ Len(out.entity.disabledComponents) <= MaxItems
    /\ entities' = [entities EXCEPT ![e] = out.entity]
    /\ freq' = out.freq
    /\ thrown' = out.thrown
    /\ filtered' = NoFilter
    /\ UNCHANGED <<storage, scn>>

AddComponent(e, ctor, enabled) == Apply(e, addComponent(entities[e], freq, ctor, enabled))

GetComponent(e, ctor) == Apply(e, getComponent(entities[e], freq, ctor))

RemoveComponent(e, ctor) == Apply(e, removeComponent(entities[e], freq, ctor))

EnableComponent(e, ctor) == Apply(e, enableComponent(entities[e], freq, ctor))

DisableComponent(e, ctor) == Apply(e, disableComponent(entities[e], freq, ctor))

DisableAllComponents(e) == Apply(e, disableAllComponents(entities[e], freq))

EnableAllComponents(e) == Apply(e, enableAllComponents(entities[e], freq))

SetActive(e, value) ==
    /\ entities' = [entities EXCEPT ![e].active = value]
    /\ thrown' = "none"
    /\ filtered' = NoFilter
    /\ UNCHANGED <<freq, storage, scn>>

AddEntity(e) ==
    LET out == addEntity(storage, e)
    IN  /\ storage' = out.storage
        /\ thrown' = out.thrown
        /\ filtered' = NoFilter
        /\ UNCHANGED <<entities, freq, scn>>

RemoveEntity(e) ==
    /\ storage' = removeEntity(storage, e)
    /\ thrown' = "none"
    /\ filtered' = NoFilter
    /\ UNCHANGED <<entities, freq, scn>>

FilterCall(filter, withDisabled) ==
    LET out == EntityStorageFilter(entities, storage, freq, filter, withDisabled)
    IN  /\ filtered' = [called |-> TRUE, filter |-> filter, withDisabled |-> withDisabled,
                        items |-> out.items, after |-> out.filter]
        /\ thrown' = "none"
        /\ UNCHANGED <<entities, freq, storage, scn>>

----------------------------------------------------------------------------
(* SpecEntity: two entities and every component operation on them.         *)

EntityIds == {"e1", "e2"}

InitExecution ==
    /\ uuids = 0
    /\ chains = <<>>
    /\ queues = <<>>
    /\ registry = {}
    /\ systems = <<>>
    /\ runs = <<>>
    /\ stack = <<>>
    /\ aborted = {}
    /\ hist = <<>>

InitEntities(ids) ==
    /\ InitExecution
    /\ iter = NoTraversal /\ InitAux
    /\ entities = [e \in ids |-> NewEntity]
    /\ freq = <<>>
    /\ storage = <<>>
    /\ thrown = "none"
    /\ filtered = NoFilter
    /\ scn = NoScenario

InitEntity == InitEntities(EntityIds)

NextEntity ==
    \/ \E e \in DOMAIN entities, c \in Ctors, en \in BOOLEAN : AddComponent(e, c, en)
    \/ \E e \in DOMAIN entities, c \in Ctors : RemoveComponent(e, c)
    \/ \E e \in DOMAIN entities, c \in Ctors : EnableComponent(e, c)
    \/ \E e \in DOMAIN entities, c \in Ctors : DisableComponent(e, c)
    \/ \E e \in DOMAIN entities : DisableAllComponents(e)
    \/ \E e \in DOMAIN entities : EnableAllComponents(e)

SpecEntity == InitEntity /\ [][NextEntity /\ UNCHANGED <<execVars, iterVars, auxVars>>]_vars

\* SpecFailFast: the same operations together with getComponent and the
\* registration of the entities, so that every failing call is made.
NextFailFast ==
    \/ NextEntity
    \/ \E e \in DOMAIN entities, c \in Ctors : GetComponent(e, c)
    \/ \E e \in DOMAIN entities : AddEntity(e)

SpecFailFast == InitEntity /\ [][NextFailFast /\ UNCHANGED <<execVars, iterVars, auxVars>>]_vars

----------------------------------------------------------------------------
(* SpecFilter: entities are built and registered, deactivated and          *)
(* reactivated, and EntityStorage.filter is called on every filter whose   *)
(* lists hold up to MaxFilterLen distinct types.                           *)

MaxFilterLen == 2

FilterLists ==
    {s \in UNION {[1..n -> Ctors] : n \in 0..MaxFilterLen} :
        \A i, j \in 1..Len(s) : i # j => s[i] # s[j]}

FilterInputs ==
    {Filter(i, x, TRUE) : i \in FilterLists, x \in FilterLists}
    \cup {Filter(i, <<>>, FALSE) : i \in FilterLists}

\* A Filtered result is the end of a behaviour: every state of the entities
\* and the registry is filtered, and nothing is built on top of a result.
NextFilter ==
    \/ /\ ~filtered.called
       /\ \E e \in DOMAIN entities, c \in Ctors, en \in BOOLEAN :
              AddComponent(e, c, en) /\ thrown' = "none"
    \/ /\ ~filtered.called
       /\ \E e \in DOMAIN entities, c \in Ctors :
              DisableComponent(e, c) /\ thrown' = "none"
    \/ /\ ~filtered.called
       /\ \E e \in DOMAIN entities : AddEntity(e) /\ thrown' = "none"
    \/ /\ ~filtered.called
       /\ \E e \in DOMAIN entities : RemoveEntity(e) /\ storage' # storage
    \/ /\ ~filtered.called
       /\ \E e \in DOMAIN entities, value \in BOOLEAN :
              SetActive(e, value) /\ entities[e].active # value
    \/ /\ ~filtered.called
       /\ \E filter \in FilterInputs, withDisabled \in BOOLEAN :
              FilterCall(filter, withDisabled)

SpecFilter == InitEntity /\ [][NextFilter /\ UNCHANGED <<execVars, iterVars, auxVars>>]_vars

----------------------------------------------------------------------------
(* SpecRarity: after any history of addComponent calls, a type T that the  *)
(* tracker does not hold is added enabled by some entities, disabled by    *)
(* one of them and then removed by each of them.                           *)

ScenarioEntityIds == {"e1", "e2", "e3"}

InitRarity ==
    /\ InitExecution
    /\ iter = NoTraversal /\ InitAux
    /\ entities = [e \in ScenarioEntityIds |-> NewEntity]
    /\ freq = <<>>
    /\ storage = <<>>
    /\ thrown = "none"
    /\ filtered = NoFilter
    /\ scn = [phase |-> "prelude"]

ApplyScenario(e, out, next) ==
    /\ out.thrown = "none"
    /\ entities' = [entities EXCEPT ![e] = out.entity]
    /\ freq' = out.freq
    /\ thrown' = out.thrown
    /\ scn' = next
    /\ UNCHANGED <<storage, filtered>>

ScnPrelude(e, ctor, enabled) ==
    /\ scn.phase = "prelude"
    /\ AddComponent(e, ctor, enabled)

ScnStart(T) ==
    /\ scn.phase = "prelude"
    /\ T \notin DOMAIN freq
    /\ scn' = [phase |-> "adding", T |-> T, added |-> {}, disabled |-> {}, removed |-> {}]
    /\ UNCHANGED <<entities, freq, storage, thrown, filtered>>

ScnAdd(e) ==
    /\ scn.phase = "adding"
    /\ e \notin scn.added
    /\ ApplyScenario(e, addComponent(entities[e], freq, scn.T, TRUE),
                     [scn EXCEPT !.added = @ \cup {e}])

ScnDisable(e) ==
    /\ scn.phase = "adding"
    /\ e \in scn.added
    /\ ApplyScenario(e, disableComponent(entities[e], freq, scn.T),
                     [scn EXCEPT !.phase = "removing", !.disabled = {e}])

ScnRemove(e) ==
    /\ scn.phase = "removing"
    /\ e \in scn.added \ scn.removed
    /\ ApplyScenario(e, removeComponent(entities[e], freq, scn.T),
                     [scn EXCEPT !.removed = @ \cup {e}])

NextRarity ==
    \/ \E e \in DOMAIN entities, c \in Ctors, en \in BOOLEAN : ScnPrelude(e, c, en)
    \/ \E T \in Ctors : ScnStart(T)
    \/ \E e \in DOMAIN entities : ScnAdd(e)
    \/ \E e \in DOMAIN entities : ScnDisable(e)
    \/ \E e \in DOMAIN entities : ScnRemove(e)

SpecRarity == InitRarity /\ [][NextRarity /\ UNCHANGED <<execVars, iterVars, auxVars>>]_vars

----------------------------------------------------------------------------
(* Execution scheduler, part 1: groups, chains and the flattening of       *)
(* groups into one queue of descriptors.                                   *)

\* An optional field: Unset when the property is undefined, Given(v) else.
Unset == <<>>

Given(v) == <<v>>

ValueOf(x) == x[1]

SystemTypes == {"A", "B", "C"}

GroupTypes == {"G1", "G2", "G3", "G4"}

\* Partial<ISystemOptions> with no property set.
NoOptions ==
    [id |-> Unset, withDisabled |-> Unset, includes |-> Unset,
     excludes |-> Unset, repeat |-> Unset, canExecute |-> Unset]

\* Utils.uuid(): the n-th id handed out; no two calls return the same id.
uuid(n) == "uuid-" \o ToString(n)

ChainCall(system, data, options) ==
    [op |-> "add", system |-> system, data |-> data, options |-> options]

\* The setup() bodies of the group classes the scheduler is exercised with.
\* G2 hands the data of the create() call on to its unit.
GroupSetup(g, data) ==
    CASE g = "G1" -> << ChainCall("A", "a", NoOptions),
                        ChainCall("B", "b", NoOptions) >>
      [] g = "G2" -> << ChainCall("C", data, NoOptions) >>
      [] g = "G3" -> << ChainCall("B", "b",
                            [NoOptions EXCEPT !.canExecute = Given(FALSE),
                                              !.includes = Given(<<"Position">>)]),
                        ChainCall("A", data,
                            [NoOptions EXCEPT !.repeat = Given(3),
                                              !.id = Given("rep")]) >>
      [] g = "G4" -> << ChainCall("C", data, [NoOptions EXCEPT !.repeat = Given(0)]),
                        ChainCall("A", "a",
                            [NoOptions EXCEPT !.repeat = Given(2),
                                              !.withDisabled = Given(TRUE),
                                              !.excludes = Given(<<"Position3D">>)]),
                        ChainCall("C", "c", NoOptions) >>

\* A clear() that leaves the entries of the chain in place.
ChainKept(providers) == providers

\* SystemChain.clear: this._providers.length = 0
ChainClear(providers) == <<>>

\* SystemChain.add: the id is options.id, or a fresh uuid when that is falsy.
ChainAdd(providers, n, system, data, options) ==
    LET fresh == options.id = Unset
        id == IF fresh THEN Given(uuid(n + 1)) ELSE options.id
        provider == [id |-> id, withDisabled |-> options.withDisabled,
                     includes |-> options.includes, excludes |-> options.excludes,
                     repeat |-> options.repeat, canExecute |-> options.canExecute,
                     system |-> system, data |-> data]
    IN  [providers |-> Append(providers, provider),
         uuids |-> IF fresh THEN n + 1 ELSE n]

\* { ...options, id, instance: { system, data } } with options.id || uuid().
ChainEntry(n, system, data, options) ==
    LET fresh == options.id = Unset
    IN  [provider |-> [id |-> IF fresh THEN Given(uuid(n + 1)) ELSE options.id,
                       withDisabled |-> options.withDisabled,
                       includes |-> options.includes, excludes |-> options.excludes,
                       repeat |-> options.repeat, canExecute |-> options.canExecute,
                       system |-> system, data |-> data],
         uuids |-> IF fresh THEN n + 1 ELSE n]

\* findIndex(opt => opt.id === targetId), counted from 1; 0 when none.
FindIndex(providers, targetId) ==
    LET hits == {i \in 1..Len(providers) : providers[i].id = Given(targetId)}
    IN  IF hits = {} THEN 0 ELSE CHOOSE i \in hits : \A j \in hits : i <= j

\* SystemChain.prepend
ChainPrepend(providers, n, system, data, options) ==
    LET e == ChainEntry(n, system, data, options)
    IN  [providers |-> <<e.provider>> \o providers, uuids |-> e.uuids]

\* An insertAfter that splices at the index of the target.
ChainInsertAfterAtTarget(providers, n, targetId, system, data, options) ==
    LET index == FindIndex(providers, targetId)
        e == ChainEntry(n, system, data, options)
    IN  IF index > 0
        THEN [providers |-> SubSeq(providers, 1, index - 1) \o <<e.provider>>
                            \o SubSeq(providers, index, Len(providers)),
              uuids |-> e.uuids]
        ELSE [providers |-> providers, uuids |-> n]

\* SystemChain.insertBefore: splice(index, 0, provider)
ChainInsertBefore(providers, n, targetId, system, data, options) ==
    LET index == FindIndex(providers, targetId)
        e == ChainEntry(n, system, data, options)
    IN  IF index > 0
        THEN [providers |-> SubSeq(providers, 1, index - 1) \o <<e.provider>>
                            \o SubSeq(providers, index, Len(providers)),
              uuids |-> e.uuids]
        ELSE [providers |-> providers, uuids |-> n]

\* SystemChain.insertAfter: splice(index + 1, 0, provider)
ChainInsertAfter(providers, n, targetId, system, data, options) ==
    LET index == FindIndex(providers, targetId)
        e == ChainEntry(n, system, data, options)
    IN  IF index > 0
        THEN [providers |-> SubSeq(providers, 1, index) \o <<e.provider>>
                            \o SubSeq(providers, index + 1, Len(providers)),
              uuids |-> e.uuids]
        ELSE [providers |-> providers, uuids |-> n]

\* SystemChain.replace: the options given when any is, else the entry's own.
ChainReplace(providers, n, targetId, system, data, options) ==
    LET index == FindIndex(providers, targetId)
    IN  IF index > 0
        THEN LET existingOption == IF options # NoOptions THEN options
                                   ELSE providers[index]
                 provider == [id |-> existingOption.id,
                              withDisabled |-> existingOption.withDisabled,
                              includes |-> existingOption.includes,
                              excludes |-> existingOption.excludes,
                              repeat |-> existingOption.repeat,
                              canExecute |-> existingOption.canExecute,
                              system |-> system, data |-> data]
             IN  [providers |-> [providers EXCEPT ![index] = provider], uuids |-> n]
        ELSE [providers |-> providers, uuids |-> n]

\* SystemChain.remove: splice(index, 1)
ChainRemove(providers, n, targetId) ==
    LET index == FindIndex(providers, targetId)
    IN  IF index > 0
        THEN [providers |-> SubSeq(providers, 1, index - 1)
                            \o SubSeq(providers, index + 1, Len(providers)),
              uuids |-> n]
        ELSE [providers |-> providers, uuids |-> n]

\* SystemChain.has: some(opt => opt.id === targetId)
ChainHas(providers, targetId) ==
    \E i \in 1..Len(providers) : providers[i].id = Given(targetId)

\* A call on the chain that names a target entry.
ChainCallOn(op, targetId, system, data, options) ==
    [op |-> op, target |-> targetId, system |-> system, data |-> data,
     options |-> options]

\* One call of a setup() on the chain.
ChainApply(providers, n, call) ==
    CASE call.op = "add" ->
            ChainAdd(providers, n, call.system, call.data, call.options)
      [] call.op = "prepend" ->
            ChainPrepend(providers, n, call.system, call.data, call.options)
      [] call.op = "insertBefore" ->
            ChainInsertBefore(providers, n, call.target, call.system, call.data,
                              call.options)
      [] call.op = "insertAfter" ->
            ChainInsertAfter(providers, n, call.target, call.system, call.data,
                             call.options)
      [] call.op = "replace" ->
            ChainReplace(providers, n, call.target, call.system, call.data,
                         call.options)
      [] call.op = "remove" -> ChainRemove(providers, n, call.target)

\* The calls a setup() makes on the chain, in order.
RECURSIVE RunSetup(_, _, _)
RunSetup(calls, providers, n) ==
    IF calls = <<>> THEN [providers |-> providers, uuids |-> n]
    ELSE LET call == Head(calls)
             r == ChainAdd(providers, n, call.system, call.data, call.options)
         IN  RunSetup(Tail(calls), r.providers, r.uuids)

\* The defaults SystemGroup.sorted writes into a provider.
\* Defaults that leave the repeat count as it is.
WithDefaultsButRepeat(provider) ==
    [provider EXCEPT
        !.withDisabled = IF @ = Unset THEN Given(FALSE) ELSE @,
        !.includes = IF @ = Unset THEN Given(<<>>) ELSE @,
        !.excludes = IF @ = Unset THEN Given(<<>>) ELSE @,
        !.canExecute = IF @ = Unset THEN Given(TRUE) ELSE @]

WithDefaults(provider) ==
    [provider EXCEPT
        !.withDisabled = IF @ = Unset THEN Given(FALSE) ELSE @,
        !.includes = IF @ = Unset THEN Given(<<>>) ELSE @,
        !.excludes = IF @ = Unset THEN Given(<<>>) ELSE @,
        !.repeat = IF @ = Unset \/ @ = Given(0) THEN Given(1) ELSE @,
        !.canExecute = IF @ = Unset THEN Given(TRUE) ELSE @]

\* The step between the orders given to providers that declare none.
orderStep == 10000

\* The defaults of the sorted() that orders by number: as above, and the
\* order (index + 1) * orderStep for the provider at index (from 0).
WithDefaultOrder(provider, index) ==
    [WithDefaults(provider) EXCEPT
        !.order = IF @ = Unset THEN Given((index + 1) * orderStep) ELSE @]

\* a.order || 0
OrderOrZero(provider) ==
    IF provider.order = Unset THEN 0
    ELSE IF ValueOf(provider.order) = 0 THEN 0 ELSE ValueOf(provider.order)

\* A sort that puts a provider before those of the same order.
InsertBeforeEqual(list, x) ==
    LET less == {i \in 1..Len(list) : OrderOrZero(list[i]) < OrderOrZero(x)}
        k == Cardinality(less)
    IN  SubSeq(list, 1, k) \o <<x>> \o SubSeq(list, k + 1, Len(list))

\* Array.prototype.sort with (a, b) => (a.order || 0) - (b.order || 0) is
\* stable: a provider goes after those already placed whose order is
\* not greater.
InsertByOrder(list, x) ==
    LET notGreater == {i \in 1..Len(list) : OrderOrZero(list[i]) <= OrderOrZero(x)}
        k == Cardinality(notGreater)
    IN  SubSeq(list, 1, k) \o <<x>> \o SubSeq(list, k + 1, Len(list))

RECURSIVE SortByOrder(_, _)
SortByOrder(list, done) ==
    IF list = <<>> THEN done
    ELSE SortByOrder(Tail(list), InsertByOrder(done, Head(list)))

\* SystemGroup.sorted of the variant with orders: the defaults are written
\* into the providers setup() returned, and that array is sorted.
sortedByOrder(providers) ==
    SortByOrder([i \in 1..Len(providers) |-> WithDefaultOrder(providers[i], i - 1)],
                <<>>)

\* SystemGroup.sorted: clear the chain, run setup, fill in the defaults.
sorted(providers, g, data, n) ==
    LET r == RunSetup(GroupSetup(g, data), ChainClear(providers), n)
    IN  [providers |-> [i \in 1..Len(r.providers) |-> WithDefaults(r.providers[i])],
         uuids |-> r.uuids]

\* GroupsContainer.get: the cached instance, or a new one (with its uuid).
GroupsContainerGet(st, ctor) ==
    IF ctor \in DOMAIN st.chains THEN st
    ELSE [st EXCEPT
            !.chains = [g \in DOMAIN st.chains \cup {ctor} |->
                          IF g = ctor
                          THEN [uuid |-> uuid(st.uuids + 1), providers |-> <<>>]
                          ELSE st.chains[g]],
            !.uuids = st.uuids + 1]

\* SystemsContainer.get: the cached instance, or a new one without context.
SystemsContainerGet(cache, ctor) ==
    IF ctor \in DOMAIN cache THEN cache
    ELSE [s \in DOMAIN cache \cup {ctor} |->
            IF s = ctor THEN [groupId |-> "", executionId |-> ""] ELSE cache[s]]

\* One descriptor: the provider's fields, tagged with group and queue.
QueueItem(provider, groupId, executionId) ==
    [id |-> provider.id, withDisabled |-> provider.withDisabled,
     includes |-> provider.includes, excludes |-> provider.excludes,
     repeat |-> provider.repeat, canExecute |-> provider.canExecute,
     system |-> provider.system, data |-> provider.data,
     groupId |-> groupId, executionId |-> executionId]

\* A loop that pushes the descriptor once, whatever repeat says.
RepeatedOnce(item, n) == <<item>>

\* for (i = 0; i < provider.repeat; i++) queue.push(item)
Repeated(item, n) == [i \in 1..n |-> item]

RECURSIVE FlattenProviders(_, _, _, _)
FlattenProviders(providers, groupId, executionId, acc) ==
    IF providers = <<>> THEN acc
    ELSE LET provider == Head(providers)
             item == QueueItem(provider, groupId, executionId)
         IN  FlattenProviders(Tail(providers), groupId, executionId,
                [queue |-> acc.queue \o Repeated(item, ValueOf(provider.repeat)),
                 systems |-> SystemsContainerGet(acc.systems, provider.system)])

RECURSIVE InstantiateGroups(_, _)
InstantiateGroups(ctors, st) ==
    IF ctors = <<>> THEN st
    ELSE InstantiateGroups(Tail(ctors), GroupsContainerGet(st, Head(ctors)))

\* The state after one group: its chain as sorted() left it, the systems
\* instantiated for it and its descriptors appended to the queue.
AfterGroup(st, g, s, acc) ==
    [chains |-> [st.chains EXCEPT ![g].providers = s.providers],
     systems |-> acc.systems,
     uuids |-> s.uuids,
     queue |-> acc.queue]

FlattenGroup(st, g, s, executionId) ==
    AfterGroup(st, g, s,
        FlattenProviders(s.providers, st.chains[g].uuid, executionId,
            [queue |-> st.queue, systems |-> st.systems]))

RECURSIVE FlattenGroups(_, _, _, _)
FlattenGroups(ctors, data, executionId, st) ==
    IF ctors = <<>> THEN st
    ELSE FlattenGroups(Tail(ctors), data, executionId,
            FlattenGroup(st, Head(ctors), sorted(st.chains[Head(ctors)].providers, Head(ctors), data,
                                st.uuids),
                         executionId))

RECURSIVE Reverse(_)
Reverse(seq) == IF seq = <<>> THEN <<>> ELSE Append(Reverse(Tail(seq)), Head(seq))

\* A flattening that takes the groups last to first.
getExecutionQueueReversed(ctors, data, executionId, st) ==
    FlattenGroups(Reverse(ctors), data, executionId, InstantiateGroups(ctors, st))

\* ExecutionQueue.getExecutionQueue: st carries the caches and the uuid count.
getExecutionQueue(ctors, data, executionId, st) ==
    FlattenGroups(ctors, data, executionId, InstantiateGroups(ctors, st))

----------------------------------------------------------------------------
(* Execution scheduler, part 2: queues, the controller and the run loop.   *)

MaxQueues == 1

MaxRuns == 2

Null == "null"

NoController == 0

\* An id that create() never returned.
NeverCreated == "no-such-queue"

\* The inputs create() is called with.
CreateInputs ==
    { [groups |-> <<"G1", "G2">>, data |-> "d1", name |-> "alpha"],
      [groups |-> <<"G3">>, data |-> "d2", name |-> "unnamed"] }

\* What a unit's run does in its synchronous part: return a value, throw,
\* return a promise that is still pending, or one that is already resolved.
ReturnKinds == {"sync", "throw", "pending", "resolved"}

\* A new ExecutionQueue after setup(). resumePromise stands for the pair
\* _resumePromise/_resolveResume, which the code sets and clears together.
NewQueue(name, items) ==
    [name |-> name, queue |-> items, currentSystem |-> Null, isPaused |-> FALSE,
     resumePromise |-> FALSE, abortController |-> NoController]

\* History of a queue. pauseMark is Given(n), n the number of descriptors
\* that had been started when pause() was called with a unit mid-execution,
\* until resume() is called on the queue; stopMark is Given(n), n the number
\* started when stop() was first called on the queue; open counts the units
\* started whose call has not returned, or whose promise has not settled.

NewHistory(input, items, lists) ==
    [input |-> input, initial |-> items, sortedLists |-> lists, started |-> <<>>,
     open |-> 0, runCalls |-> 0, controlled |-> FALSE,
     pauseMark |-> Unset, stopMark |-> Unset]

\* A run() call. pc is the position of its execute():
\*   "loop"       on the call stack, at the head of the while loop
\*   "running"    on the call stack, inside the synchronous part of a unit
\*   "waitResume" suspended on the promise of waitForResume()
\*   "resumed"    that promise resolved, continuation not yet run
\*   "awaiting"   suspended on the race of the unit's promise and the abort
\*   "raceDone"   the race settled (outcome), continuation not yet run
\*   "execDone"   execute() settled (outcome), run()'s continuation not yet run
\*   "done"       the promise of run() settled (outcome)
\* returned is what the unit called last handed back; stopped tells that
\* stop() acted on the queue while the run was in progress.
NewRun(q, asyncAllowed, pc, outcome) ==
    [queue |-> q, asyncAllowed |-> asyncAllowed, pc |-> pc, item |-> <<>>,
     signal |-> NoController, outcome |-> outcome, errSystem |-> "",
     errQueue |-> "", returned |-> "none", stopped |-> FALSE]

Top == stack[Len(stack)]

Pop == SubSeq(stack, 1, Len(stack) - 1)

\* Code calling the controller is either not inside any run (an event
\* handler, or a synchronous block between two continuations) or is the
\* synchronous part of the unit that is running innermost.
CanCall == IF stack = <<>> THEN TRUE ELSE runs[Top].pc = "running"

MidExecution(q) ==
    \E r \in 1..Len(runs) : runs[r].queue = q /\ runs[r].pc \in {"running", "awaiting"}

\* ExecutionController.create
Create(input) ==
    /\ CanCall
    /\ \E id \in {uuid(uuids + 1)} :
       \E st \in {getExecutionQueue(input.groups, input.data, id,
                      [chains |-> chains, systems |-> systems,
                       uuids |-> uuids + 1, queue |-> <<>>])} :
          LET lists == [i \in 1..Len(input.groups) |->
                          [groupId |-> st.chains[input.groups[i]].uuid,
                           providers |-> st.chains[input.groups[i]].providers]]
          IN  /\ queues' = [q \in DOMAIN queues \cup {id} |->
                              IF q = id THEN NewQueue(input.name, st.queue)
                              ELSE queues[q]]
              /\ hist' = [q \in DOMAIN hist \cup {id} |->
                              IF q = id THEN NewHistory(input, st.queue, lists)
                              ELSE hist[q]]
              /\ registry' = registry \cup {id}
              /\ chains' = st.chains
              /\ systems' = st.systems
              /\ uuids' = st.uuids
    /\ UNCHANGED <<runs, stack, aborted>>

\* ExecutionController.run up to the first statement of execute()'s loop.
Run(q, asyncAllowed) ==
    /\ CanCall
    /\ Len(runs) < MaxRuns
    /\ hist' = IF q \in DOMAIN hist THEN [hist EXCEPT ![q].runCalls = @ + 1] ELSE hist
    /\ IF q \notin registry
       THEN /\ runs' = Append(runs, NewRun(q, asyncAllowed, "done", "QueueNotFound"))
            /\ UNCHANGED <<queues, stack>>
       ELSE /\ runs' = Append(runs, NewRun(q, asyncAllowed, "loop", "none"))
            /\ queues' = [queues EXCEPT ![q].abortController = Len(runs) + 1]
            /\ stack' = Append(stack, Len(runs) + 1)
    /\ UNCHANGED <<uuids, chains, registry, systems, aborted>>

\* A lookup that finds every queue that was ever created.
KnownOnceCreated(q) == IF q \in DOMAIN queues THEN {q} ELSE {}

\* A catch block that absorbs every error.
CatchAll(error) == "ok"

\* The catch block of execute(): only the stop sentinel is absorbed.
Catch(error) == IF error = "Stopped" THEN "ok" ELSE error

\* execute() settles with the outcome: resolved for "ok", rejected otherwise.
Settled(R, outcome) == [R EXCEPT !.pc = "execDone", !.outcome = outcome]

\* A loop that binds the unit's context before it asks canExecute().
DequeueBindsSkipped(r, rest) ==
    LET q == runs[r].queue
        Q == queues[q]
    IN  IF Q.abortController = NoController
        THEN \* `.signal` is read from null: a TypeError inside the try
             /\ runs' = [runs EXCEPT ![r] = Settled(@, Catch("TypeError"))]
             /\ stack' = rest
             /\ UNCHANGED <<queues, systems, hist>>
        ELSE IF Q.abortController \in aborted
        THEN /\ runs' = [runs EXCEPT ![r] = Settled(@, "ok")]
             /\ stack' = rest
             /\ UNCHANGED <<queues, systems, hist>>
        ELSE IF Q.queue = <<>>
        THEN \* shift() of an empty array returns no item
             /\ runs' = [runs EXCEPT ![r].pc = "loop"]
             /\ stack' = Append(rest, r)
             /\ UNCHANGED <<queues, systems, hist>>
        ELSE LET item == Head(Q.queue)
             IN  IF ~ValueOf(item.canExecute)
                 THEN /\ queues' = [queues EXCEPT ![q].queue = Tail(@),
                                                  ![q].currentSystem = item.system]
                      /\ systems' = [systems EXCEPT ![item.system] =
                                        [groupId |-> item.groupId,
                                         executionId |-> item.executionId]]
                      /\ runs' = [runs EXCEPT ![r].pc = "loop"]
                      /\ stack' = Append(rest, r)
                      /\ UNCHANGED hist
                 ELSE /\ queues' = [queues EXCEPT ![q].queue = Tail(@),
                                                  ![q].currentSystem = item.system]
                      /\ systems' = [systems EXCEPT ![item.system] =
                                        [groupId |-> item.groupId,
                                         executionId |-> item.executionId]]
                      /\ runs' = [runs EXCEPT ![r].pc = "running",
                                              ![r].item = <<item>>]
                      /\ stack' = Append(rest, r)
                      /\ hist' = [hist EXCEPT ![q].started = Append(@, item),
                                              ![q].open = @ + 1]

\* From the aborted test to the call of the unit's run. rest is the call
\* stack below this run.
Dequeue(r, rest) ==
    LET q == runs[r].queue
        Q == queues[q]
    IN  IF Q.abortController = NoController
        THEN \* `.signal` is read from null: a TypeError inside the try
             /\ runs' = [runs EXCEPT ![r] = Settled(@, Catch("TypeError"))]
             /\ stack' = rest
             /\ UNCHANGED <<queues, systems, hist>>
        ELSE IF Q.abortController \in aborted
        THEN /\ runs' = [runs EXCEPT ![r] = Settled(@, "ok")]
             /\ stack' = rest
             /\ UNCHANGED <<queues, systems, hist>>
        ELSE IF Q.queue = <<>>
        THEN \* shift() of an empty array returns no item
             /\ runs' = [runs EXCEPT ![r].pc = "loop"]
             /\ stack' = Append(rest, r)
             /\ UNCHANGED <<queues, systems, hist>>
        ELSE LET item == Head(Q.queue)
             IN  IF ~ValueOf(item.canExecute)
                 THEN /\ queues' = [queues EXCEPT ![q].queue = Tail(@)]
                      /\ runs' = [runs EXCEPT ![r].pc = "loop"]
                      /\ stack' = Append(rest, r)
                      /\ UNCHANGED <<systems, hist>>
                 ELSE /\ queues' = [queues EXCEPT ![q].queue = Tail(@),
                                                  ![q].currentSystem = item.system]
                      /\ systems' = [systems EXCEPT ![item.system] =
                                        [groupId |-> item.groupId,
                                         executionId |-> item.executionId]]
                      /\ runs' = [runs EXCEPT ![r].pc = "running",
                                              ![r].item = <<item>>]
                      /\ stack' = Append(rest, r)
                      /\ hist' = [hist EXCEPT ![q].started = Append(@, item),
                                              ![q].open = @ + 1]

\* One pass through the head of execute()'s while loop.
ExecLoop(r) ==
    /\ stack # <<>> /\ r = Top /\ runs[r].pc = "loop"
    /\ LET q == runs[r].queue
       IN  IF queues[q].queue = <<>>
           THEN /\ runs' = [runs EXCEPT ![r] = Settled(@, "ok")]
                /\ stack' = Pop
                /\ UNCHANGED <<queues, systems, hist>>
           ELSE IF queues[q].isPaused
           THEN \* await this.waitForResume()
                /\ queues' = [queues EXCEPT ![q].resumePromise = TRUE]
                /\ runs' = [runs EXCEPT ![r].pc = "waitResume"]
                /\ stack' = Pop
                /\ UNCHANGED <<systems, hist>>
           ELSE Dequeue(r, Pop)
    /\ UNCHANGED <<uuids, chains, registry, aborted>>

\* The unit's run returns to execute(): the statements after the call.
UnitReturn(r, kind) ==
    /\ stack # <<>> /\ r = Top /\ runs[r].pc = "running"
    /\ LET q == runs[r].queue
           Q == queues[q]
           R == runs[r]
       IN  CASE kind = "sync" ->
                 /\ queues' = [queues EXCEPT ![q].currentSystem = Null]
                 /\ runs' = [runs EXCEPT ![r].pc = "loop", ![r].item = <<>>,
                                         ![r].returned = kind]
                 /\ hist' = [hist EXCEPT ![q].open = @ - 1]
                 /\ UNCHANGED stack
             [] kind = "throw" ->
                 /\ runs' = [runs EXCEPT ![r] =
                                [Settled(@, Catch("UnitError")) EXCEPT !.returned = kind]]
                 /\ hist' = [hist EXCEPT ![q].open = @ - 1]
                 /\ stack' = Pop
                 /\ UNCHANGED queues
             [] kind \in {"pending", "resolved"} ->
                 /\ hist' = [hist EXCEPT ![q].open =
                                IF kind = "resolved" THEN @ - 1 ELSE @]
                 /\ stack' = Pop
                 /\ UNCHANGED queues
                 /\ IF ~R.asyncAllowed
                    THEN runs' = [runs EXCEPT ![r] =
                            [Settled(@, Catch("AsyncProhibited")) EXCEPT
                                !.returned = kind,
                                !.errSystem = R.item[1].system,
                                !.errQueue = Q.name]]
                    ELSE IF kind = "resolved"
                    THEN \* the race is won by the unit's settled promise
                         runs' = [runs EXCEPT ![r].pc = "raceDone", ![r].outcome = "ok",
                                              ![r].returned = kind]
                    ELSE IF Q.abortController = NoController
                    THEN \* the executor reads `.signal` of null: its promise
                         \* is rejected with the TypeError and wins the race
                         runs' = [runs EXCEPT ![r].pc = "raceDone",
                                              ![r].outcome = "TypeError",
                                              ![r].returned = kind]
                    ELSE runs' = [runs EXCEPT ![r].pc = "awaiting",
                                              ![r].signal = Q.abortController,
                                              ![r].returned = kind]
    /\ UNCHANGED <<uuids, chains, registry, systems, aborted>>

\* The promise an awaited unit returned settles: resolved or rejected.
Settle(r, ok) ==
    /\ CanCall
    /\ runs[r].pc = "awaiting"
    /\ runs' = [runs EXCEPT ![r].pc = "raceDone",
                            ![r].outcome = IF ok THEN "ok" ELSE "UnitError"]
    /\ hist' = [hist EXCEPT ![runs[r].queue].open = @ - 1]
    /\ UNCHANGED <<uuids, chains, queues, registry, systems, stack, aborted>>

\* A run() that takes the queue out of the registry however execute() ended.
ContinueDeletesAlways(r) ==
    /\ stack = <<>>
    /\ LET q == runs[r].queue
           R == runs[r]
       IN  CASE R.pc = "raceDone" /\ R.outcome = "ok" ->
                 /\ queues' = [queues EXCEPT ![q].currentSystem = Null]
                 /\ runs' = [runs EXCEPT ![r].pc = "loop", ![r].item = <<>>,
                                         ![r].outcome = "none"]
                 /\ stack' = <<r>>
                 /\ UNCHANGED <<registry, systems, hist>>
             [] R.pc = "raceDone" /\ R.outcome # "ok" ->
                 /\ runs' = [runs EXCEPT ![r] = Settled(@, Catch(R.outcome))]
                 /\ UNCHANGED <<queues, registry, systems, stack, hist>>
             [] R.pc = "resumed" ->
                 /\ Dequeue(r, <<>>)
                 /\ UNCHANGED registry
             [] R.pc = "execDone" /\ R.outcome = "ok" ->
                 /\ registry' = registry \ {q}
                 /\ runs' = [runs EXCEPT ![r].pc = "done"]
                 /\ UNCHANGED <<queues, systems, stack, hist>>
             [] R.pc = "execDone" /\ R.outcome # "ok" ->
                 /\ registry' = registry \ {q}
                 /\ runs' = [runs EXCEPT ![r].pc = "done"]
                 /\ UNCHANGED <<queues, systems, stack, hist>>
             [] OTHER -> FALSE
    /\ UNCHANGED <<uuids, chains, aborted>>

\* A continuation runs once the call stack is empty: after the race, after
\* waitForResume(), or run()'s own after `await queue.execute()`.
Continue(r) ==
    /\ stack = <<>>
    /\ LET q == runs[r].queue
           R == runs[r]
       IN  CASE R.pc = "raceDone" /\ R.outcome = "ok" ->
                 /\ queues' = [queues EXCEPT ![q].currentSystem = Null]
                 /\ runs' = [runs EXCEPT ![r].pc = "loop", ![r].item = <<>>,
                                         ![r].outcome = "none"]
                 /\ stack' = <<r>>
                 /\ UNCHANGED <<registry, systems, hist>>
             [] R.pc = "raceDone" /\ R.outcome # "ok" ->
                 /\ runs' = [runs EXCEPT ![r] = Settled(@, Catch(R.outcome))]
                 /\ UNCHANGED <<queues, registry, systems, stack, hist>>
             [] R.pc = "resumed" ->
                 /\ Dequeue(r, <<>>)
                 /\ UNCHANGED registry
             [] R.pc = "execDone" /\ R.outcome = "ok" ->
                 /\ registry' = registry \ {q}
                 /\ runs' = [runs EXCEPT ![r].pc = "done"]
                 /\ UNCHANGED <<queues, systems, stack, hist>>
             [] R.pc = "execDone" /\ R.outcome # "ok" ->
                 /\ runs' = [runs EXCEPT ![r].pc = "done"]
                 /\ UNCHANGED <<queues, registry, systems, stack, hist>>
             [] OTHER -> FALSE
    /\ UNCHANGED <<uuids, chains, aborted>>

\* The history after stop() was called on every queue of S.
StopNoted(S) ==
    [q \in DOMAIN hist |->
        IF q \in S
        THEN [hist[q] EXCEPT !.controlled = TRUE,
                             !.stopMark = IF @ = Unset
                                          THEN Given(Len(hist[q].started)) ELSE @]
        ELSE hist[q]]

\* A stop() that leaves the queue object as it is.
StopQueuesNoEffect(S) ==
    /\ UNCHANGED <<queues, aborted>>
    /\ runs' = [r \in 1..Len(runs) |->
                  IF runs[r].queue \notin S \/ runs[r].pc = "done" THEN runs[r]
                  ELSE [runs[r] EXCEPT !.stopped = TRUE]]
    /\ hist' = StopNoted(S)

\* ExecutionQueue.stop on every queue of S. The default forceStop() of the
\* current unit does nothing. Aborting the controller rejects the race of
\* every run that registered its listener on it.
StopQueues(S) ==
    /\ queues' = [q \in DOMAIN queues |->
                    IF q \in S
                    THEN [queues[q] EXCEPT !.queue = <<>>,
                                           !.abortController = NoController]
                    ELSE queues[q]]
    /\ aborted' = aborted \cup ({queues[q].abortController : q \in S} \ {NoController})
    /\ runs' = [r \in 1..Len(runs) |->
                  LET R == runs[r]
                  IN  IF R.queue \notin S \/ R.pc = "done" THEN R
                      ELSE IF R.pc = "awaiting"
                              /\ R.signal = queues[R.queue].abortController
                      THEN [R EXCEPT !.pc = "raceDone", !.outcome = "Stopped",
                                     !.stopped = TRUE]
                      ELSE [R EXCEPT !.stopped = TRUE]]
    /\ hist' = StopNoted(S)

\* ExecutionQueue.pause on every queue of S.
PauseQueues(S) ==
    /\ queues' = [q \in DOMAIN queues |->
                    IF q \in S THEN [queues[q] EXCEPT !.isPaused = TRUE]
                    ELSE queues[q]]
    /\ hist' = [q \in DOMAIN hist |->
                  IF q \in S
                  THEN [hist[q] EXCEPT !.controlled = TRUE,
                                       !.pauseMark =
                                          IF @ = Unset /\ MidExecution(q)
                                          THEN Given(Len(hist[q].started))
                                          ELSE @]
                  ELSE hist[q]]
    /\ UNCHANGED <<runs, aborted>>

\* A resume() that clears the flag and leaves the waiting loop waiting.
ResumeQueuesKeepsWaiting(S) ==
    /\ queues' = [q \in DOMAIN queues |->
                    IF q \in S /\ queues[q].isPaused
                    THEN [queues[q] EXCEPT !.isPaused = FALSE]
                    ELSE queues[q]]
    /\ hist' = [q \in DOMAIN hist |->
                  IF q \in S THEN [hist[q] EXCEPT !.pauseMark = Unset] ELSE hist[q]]
    /\ UNCHANGED <<runs, aborted>>

\* ExecutionQueue.resume on every queue of S.
ResumeQueues(S) ==
    /\ queues' = [q \in DOMAIN queues |->
                    IF q \in S /\ queues[q].isPaused
                    THEN [queues[q] EXCEPT !.isPaused = FALSE,
                                           !.resumePromise = FALSE]
                    ELSE queues[q]]
    /\ runs' = [r \in 1..Len(runs) |->
                  LET R == runs[r]
                  IN  IF /\ R.queue \in S
                         /\ queues[R.queue].isPaused
                         /\ queues[R.queue].resumePromise
                         /\ R.pc = "waitResume"
                      THEN [R EXCEPT !.pc = "resumed"]
                      ELSE R]
    /\ hist' = [q \in DOMAIN hist |->
                  IF q \in S THEN [hist[q] EXCEPT !.pauseMark = Unset] ELSE hist[q]]
    /\ UNCHANGED aborted

\* A lookup that hands back every registered queue for a registered id.
KnownWithOthers(q) == IF q \in registry THEN registry ELSE {}

\* this._queues.get(queueId): the queue, if the id is registered.
Known(q) == IF q \in registry THEN {q} ELSE {}

\* A stop() that leaves the queue in the registry.
StopKeepsRegistered(q) ==
    /\ CanCall
    /\ StopQueues(Known(q))
    /\ UNCHANGED <<uuids, chains, registry, systems, stack>>

\* ExecutionController.stop
Stop(q) ==
    /\ CanCall
    /\ StopQueues(Known(q))
    /\ registry' = registry \ {q}
    /\ UNCHANGED <<uuids, chains, systems, stack>>

\* ExecutionController.pause
Pause(q) ==
    /\ CanCall
    /\ PauseQueues(Known(q))
    /\ UNCHANGED <<uuids, chains, registry, systems, stack>>

\* ExecutionController.resume
Resume(q) ==
    /\ CanCall
    /\ ResumeQueues(Known(q))
    /\ UNCHANGED <<uuids, chains, registry, systems, stack>>

\* ExecutionController.stopAll
StopAll ==
    /\ CanCall
    /\ StopQueues(registry)
    /\ registry' = {}
    /\ UNCHANGED <<uuids, chains, systems, stack>>

\* ExecutionController.pauseAll
PauseAll ==
    /\ CanCall
    /\ PauseQueues(registry)
    /\ UNCHANGED <<uuids, chains, registry, systems, stack>>

\* ExecutionController.resumeAll
ResumeAll ==
    /\ CanCall
    /\ ResumeQueues(registry)
    /\ UNCHANGED <<uuids, chains, registry, systems, stack>>

\* ExecutionController.activeQueues
activeQueues == registry

\* ExecutionController.hasQueue
hasQueue(q) == q \in registry

\* ExecutionController.getQueueStatus
getQueueStatus(q) ==
    IF q \in registry THEN [isPaused |-> queues[q].isPaused] ELSE Null

InitNoEntities ==
    /\ entities = <<>>
    /\ freq = <<>>
    /\ storage = <<>>
    /\ thrown = "none"
    /\ filtered = NoFilter
    /\ scn = NoScenario

Init == InitExecution /\ InitNoEntities /\ iter = NoTraversal /\ InitAux

Next ==
    \/ \E input \in CreateInputs :
          /\ Cardinality(DOMAIN queues) < MaxQueues
          /\ Create(input) /\ UNCHANGED <<entityVars, iterVars, auxVars>>
    \/ \E q \in DOMAIN queues, a \in BOOLEAN : Run(q, a) /\ UNCHANGED <<entityVars, iterVars, auxVars>>
    \/ \E r \in 1..Len(runs) : ExecLoop(r) /\ UNCHANGED <<entityVars, iterVars, auxVars>>
    \/ \E r \in 1..Len(runs), k \in ReturnKinds : UnitReturn(r, k) /\ UNCHANGED <<entityVars, iterVars, auxVars>>
    \/ \E r \in 1..Len(runs), ok \in BOOLEAN : Settle(r, ok) /\ UNCHANGED <<entityVars, iterVars, auxVars>>
    \/ \E r \in 1..Len(runs) : Continue(r) /\ UNCHANGED <<entityVars, iterVars, auxVars>>
    \/ \E q \in DOMAIN queues : Stop(q) /\ UNCHANGED <<entityVars, iterVars, auxVars>>
    \/ \E q \in DOMAIN queues : Pause(q) /\ UNCHANGED <<entityVars, iterVars, auxVars>>
    \/ \E q \in DOMAIN queues : Resume(q) /\ UNCHANGED <<entityVars, iterVars, auxVars>>
    \/ StopAll /\ UNCHANGED <<entityVars, iterVars, auxVars>>
    \/ PauseAll /\ UNCHANGED <<entityVars, iterVars, auxVars>>
    \/ ResumeAll /\ UNCHANGED <<entityVars, iterVars, auxVars>>

Spec == Init /\ [][Next]_vars

\* The same, with the controller also called on an id it never returned.
NextUnknown ==
    \/ Next
    \/ \E a \in BOOLEAN : Run(NeverCreated, a) /\ UNCHANGED <<entityVars, iterVars, auxVars>>
    \/ Stop(NeverCreated) /\ UNCHANGED <<entityVars, iterVars, auxVars>>
    \/ Pause(NeverCreated) /\ UNCHANGED <<entityVars, iterVars, auxVars>>
    \/ Resume(NeverCreated) /\ UNCHANGED <<entityVars, iterVars, auxVars>>

SpecUnknown == Init /\ [][NextUnknown]_vars

\* SpecLive: one queue, run once and never stopped; a promise a unit
\* returned is resolved, never rejected. Every step of the loop that can
\* be taken is taken in the end, every promise awaited settles in the end,
\* and a queue that can be resumed is resumed in the end, for each run.
NextLive ==
    \/ \E input \in CreateInputs :
          /\ Cardinality(DOMAIN queues) < MaxQueues
          /\ Create(input)
    \/ \E q \in DOMAIN queues, a \in BOOLEAN : hist[q].runCalls = 0 /\ Run(q, a)
    \/ \E r \in 1..Len(runs) : ExecLoop(r)
    \/ \E r \in 1..Len(runs), k \in ReturnKinds : UnitReturn(r, k)
    \/ \E r \in 1..Len(runs) : Settle(r, TRUE)
    \/ \E r \in 1..Len(runs) : Continue(r)
    \/ \E q \in DOMAIN queues : Pause(q)
    \/ \E q \in DOMAIN queues : Resume(q)

Others == UNCHANGED <<entityVars, iterVars, auxVars>>

SpecLive ==
    /\ Init
    /\ [][NextLive /\ Others]_vars
    /\ \A r \in 1..MaxRuns :
          /\ WF_vars(Others /\ r \in 1..Len(runs) /\ ExecLoop(r))
          /\ WF_vars(Others /\ r \in 1..Len(runs)
                            /\ \E k \in ReturnKinds : UnitReturn(r, k))
          /\ WF_vars(Others /\ r \in 1..Len(runs) /\ Settle(r, TRUE))
          /\ WF_vars(Others /\ r \in 1..Len(runs) /\ Continue(r))
          /\ WF_vars(Others /\ r \in 1..Len(runs) /\ Resume(runs[r].queue))

\* SpecPair: up to MaxPair queues of the units A and B, each unit returning
\* a value or a pending promise, run with asynchronous units allowed, and
\* stop(), pause() and resume() called on single queues.
MaxPair == 2

PairInput == [groups |-> <<"G1">>, data |-> "d1", name |-> "alpha"]

NextPair ==
    \/ /\ Cardinality(DOMAIN queues) < MaxPair
       /\ Create(PairInput)
    \/ \E q \in DOMAIN queues : Run(q, TRUE)
    \/ \E r \in 1..Len(runs) : ExecLoop(r)
    \/ \E r \in 1..Len(runs), k \in {"sync", "pending"} : UnitReturn(r, k)
    \/ \E r \in 1..Len(runs) : Settle(r, TRUE)
    \/ \E r \in 1..Len(runs) : Continue(r)
    \/ \E q \in DOMAIN queues : Stop(q)
    \/ \E q \in DOMAIN queues : Pause(q)
    \/ \E q \in DOMAIN queues : Resume(q)

SpecPair == Init /\ [][NextPair /\ UNCHANGED <<entityVars, iterVars, auxVars>>]_vars

----------------------------------------------------------------------------
(* SpecSignal: a Signal with up to MaxListeners listeners, each callback   *)
(* registered once, and up to MaxDispatches calls of dispatch().           *)

MaxListeners == 2

MaxDispatches == 2

Callbacks == {"f", "g"}

\* Signal.subscribe and Signal.once: this.listeners.push({ callback, once })
Listen(callback, once) ==
    /\ Len(sgn.listeners) < MaxListeners
    /\ callback \notin DOMAIN sgn.invoked
    /\ sgn' = [sgn EXCEPT
                 !.listeners = Append(@, [callback |-> callback, once |-> once]),
                 !.invoked = [c \in DOMAIN @ \cup {callback} |->
                                 IF c = callback THEN 0 ELSE @[c]],
                 !.onceCallbacks = IF once THEN @ \cup {callback} ELSE @]
    /\ UNCHANGED <<chain, life>>

\* Signal.unsubscribe, also the dispose() of a subscription.
Unsubscribe(callback) ==
    /\ \E i \in 1..Len(sgn.listeners) : sgn.listeners[i].callback = callback
    /\ sgn' = [sgn EXCEPT
                 !.listeners = SelectSeq(@, LAMBDA l : l.callback # callback)]
    /\ UNCHANGED <<chain, life>>

\* Signal.dispatch up to its await: every listener is called, in order;
\* kinds[i] tells whether listener i returned a value or a promise. The
\* callbacks with once are noted and the promises are awaited together.
Dispatch(kinds) ==
    /\ Len(sgn.dispatches) < MaxDispatches
    /\ LET n == Len(sgn.listeners)
           called(c) == Cardinality({i \in 1..n : sgn.listeners[i].callback = c})
           onceListeners == {sgn.listeners[i].callback :
                               i \in {j \in 1..n : sgn.listeners[j].once}}
           promises == Cardinality({i \in 1..n : kinds[i] = "promise"})
       IN  sgn' = [sgn EXCEPT
                     !.invoked = [c \in DOMAIN @ |-> @[c] + called(c)],
                     !.dispatches = Append(@, [pc |-> "awaiting",
                                               onceListeners |-> onceListeners,
                                               promises |-> promises])]
    /\ UNCHANGED <<chain, life>>

\* A promise a listener returned settles. Promise.all rejects with the
\* first rejection, and dispatch() with it.
ListenerSettles(d, ok) ==
    /\ sgn.dispatches[d].pc = "awaiting"
    /\ sgn.dispatches[d].promises > 0
    /\ sgn' = IF ok THEN [sgn EXCEPT !.dispatches[d].promises = @ - 1]
              ELSE [sgn EXCEPT !.dispatches[d].pc = "rejected"]
    /\ UNCHANGED <<chain, life>>

\* The continuation of dispatch() after `await Promise.all(promises)`.
DispatchContinue(d) ==
    /\ sgn.dispatches[d].pc = "awaiting"
    /\ sgn.dispatches[d].promises = 0
    /\ LET onceListeners == sgn.dispatches[d].onceListeners
       IN  sgn' = [sgn EXCEPT
                     !.dispatches[d].pc = "done",
                     !.listeners = IF onceListeners # {}
                                   THEN SelectSeq(@, LAMBDA l :
                                            l.callback \notin onceListeners)
                                   ELSE @]
    /\ UNCHANGED <<chain, life>>

NextSignal ==
    \/ \E c \in Callbacks, once \in BOOLEAN : Listen(c, once)
    \/ \E c \in Callbacks : Unsubscribe(c)
    \/ \E kinds \in [1..Len(sgn.listeners) -> {"value", "promise"}] : Dispatch(kinds)
    \/ \E d \in 1..Len(sgn.dispatches), ok \in BOOLEAN : ListenerSettles(d, ok)
    \/ \E d \in 1..Len(sgn.dispatches) : DispatchContinue(d)

SpecSignal == Init /\ [][NextSignal /\ UNCHANGED <<entityVars, execVars, iterVars>>]_vars

----------------------------------------------------------------------------
(* SpecLifeCycle: start(), pause(true), pause(false) and the animation     *)
(* frames of the page, up to MaxFrames of them.                            *)

MaxFrames == 8

\* LifeCycle.start: the start callbacks, and the first frame is asked for.
LifeStart ==
    /\ ~life.started
    /\ life' = [life EXCEPT !.started = TRUE, !.requested = @ + 1]
    /\ UNCHANGED <<chain, sgn>>

\* LifeCycle.pause
LifePause(paused) ==
    /\ life.paused # paused
    /\ life' = [life EXCEPT !.paused = paused]
    /\ UNCHANGED <<chain, sgn>>

\* LifeCycle.update: the callbacks and OnUpdateSignal, unless paused.
LifeUpdate(l) == IF l.paused THEN l ELSE [l EXCEPT !.updates = @ + 1]

\* LifeCycle.animate: nothing when paused; else the update, the time of
\* the frame is kept and the next frame is asked for.
animate(l, currentTime) ==
    IF l.paused THEN [l EXCEPT !.missed = TRUE]
    ELSE [(IF l.lastTime # 0 THEN LifeUpdate(l) ELSE l) EXCEPT
             !.lastTime = currentTime, !.requested = @ + 1]

\* A frame of the page: the time goes on, and animate() is called if a
\* frame was asked for.
Frame ==
    /\ life.now < MaxFrames
    /\ LET currentTime == life.now + 1
           l == [life EXCEPT !.now = currentTime]
       IN  life' = IF life.requested > 0
                   THEN animate([l EXCEPT !.requested = @ - 1], currentTime)
                   ELSE l
    /\ UNCHANGED <<chain, sgn>>

NextLifeCycle ==
    \/ LifeStart
    \/ \E paused \in BOOLEAN : LifePause(paused)
    \/ Frame

SpecLifeCycle ==
    Init /\ [][NextLifeCycle /\ UNCHANGED <<entityVars, execVars, iterVars>>]_vars

\* Scheduling alone: create() called with every list of up to MaxGroups of
\* the group classes, and nothing run.
MaxSetups == 2

MaxGroups == 2

\* The first create() is given the data "d1", every later one "d2".
SetupInputs ==
    { [groups |-> gs, name |-> "unnamed",
       data |-> IF DOMAIN queues = {} THEN "d1" ELSE "d2"] :
        gs \in UNION {[1..n -> GroupTypes \ {"G2"}] : n \in 1..MaxGroups} }

NextSetup ==
    \E input \in SetupInputs :
        /\ Cardinality(DOMAIN queues) < MaxSetups
        /\ Create(input) /\ UNCHANGED <<entityVars, iterVars, auxVars>>

SpecSetup == Init /\ [][NextSetup]_vars

----------------------------------------------------------------------------
(* SpecChain: a setup() that makes up to MaxCalls calls on the chain, each *)
(* with its own data, and sorted() handing the chain out.                  *)

MaxCalls == 3

\* Ids a caller names: two it also gives to entries, the first generated
\* one, and one that no entry has.
TargetIds == {"x", "y", uuid(1), "absent"}

ChainOptions ==
    { NoOptions,
      [NoOptions EXCEPT !.id = Given("x")],
      [NoOptions EXCEPT !.id = Given("y"), !.repeat = Given(2)],
      [NoOptions EXCEPT !.withDisabled = Given(TRUE),
                        !.includes = Given(<<"Position">>),
                        !.excludes = Given(<<"Position3D">>),
                        !.canExecute = Given(FALSE)] }

ChainCalls(data) ==
    {ChainCall("A", data, o) : o \in ChainOptions}
    \cup {ChainCallOn("prepend", "", "B", data, o) : o \in ChainOptions}
    \cup {ChainCallOn(op, t, "C", data, o) :
             op \in {"insertBefore", "insertAfter", "replace"},
             t \in TargetIds, o \in ChainOptions}
    \cup {ChainCallOn("remove", t, "", data, NoOptions) : t \in TargetIds}

\* The list operations the calls stand for, on a list kept beside the chain.
First(list, targetId) ==
    IF \E i \in 1..Len(list) : list[i].id = Given(targetId)
    THEN CHOOSE i \in 1..Len(list) :
            /\ list[i].id = Given(targetId)
            /\ \A j \in 1..(i - 1) : list[j].id # Given(targetId)
    ELSE 0

InsertedAt(list, k, x) ==
    [i \in 1..(Len(list) + 1) |->
        IF i < k THEN list[i] ELSE IF i = k THEN x ELSE list[i - 1]]

DeletedAt(list, k) ==
    [i \in 1..(Len(list) - 1) |-> IF i < k THEN list[i] ELSE list[i + 1]]

\* The entry a call puts in the chain: the last one, or the one at the
\* place of the target.
Listed(list, call, after) ==
    LET k == IF call.op \in {"add", "prepend"} THEN 0 ELSE First(list, call.target)
    IN  CASE call.op = "add" -> InsertedAt(list, Len(list) + 1, after[Len(after)])
          [] call.op = "prepend" -> InsertedAt(list, 1, after[1])
          [] call.op = "insertBefore" ->
                IF k = 0 THEN list ELSE InsertedAt(list, k, after[k])
          [] call.op = "insertAfter" ->
                IF k = 0 THEN list ELSE InsertedAt(list, k + 1, after[k + 1])
          [] call.op = "replace" ->
                IF k = 0 THEN list ELSE [list EXCEPT ![k] = after[k]]
          [] call.op = "remove" ->
                IF k = 0 THEN list ELSE DeletedAt(list, k)

\* A call of setup() on the chain.
ChainOp(call) ==
    /\ ~chain.sortedCalled
    /\ chain.calls < MaxCalls
    /\ \E r \in {ChainApply(chain.providers, chain.uuids, call)} :
          chain' = [chain EXCEPT !.providers = r.providers,
                                 !.uuids = r.uuids,
                                 !.calls = @ + 1,
                                 !.ref = Listed(@, call, r.providers)]
    /\ UNCHANGED <<sgn, life>>

\* SystemGroup.sorted after setup(): the defaults are written into the
\* providers, and the providers are returned.
ChainSorted ==
    /\ ~chain.sortedCalled
    /\ LET providers == [i \in 1..Len(chain.providers) |->
                            WithDefaults(chain.providers[i])]
       IN  chain' = [chain EXCEPT !.providers = providers, !.handed = providers,
                                  !.sortedCalled = TRUE]
    /\ UNCHANGED <<sgn, life>>

NextChain ==
    \/ \E call \in ChainCalls(chain.calls + 1) : ChainOp(call)
    \/ ChainSorted

SpecChain == Init /\ [][NextChain /\ UNCHANGED <<entityVars, execVars, iterVars>>]_vars

----------------------------------------------------------------------------
(* Filtered: the traversals sequential() and parallel() of the entities a  *)
(* Filtered result wraps.                                                  *)

\* The longest list traversed.
MaxListed == 3

ListedIds == {"e1", "e2", "e3", "e4"}

\* The lists a Filtered result wraps: entities, none of them twice.
TraversalLists ==
    {l \in UNION {[1..n -> ListedIds] : n \in 0..MaxListed} :
        \A i, j \in 1..Len(l) : i # j => l[i] # l[j]}

\* What a callback does when it is invoked: return something that is not a
\* promise, throw, or return a promise that is pending, already resolved
\* or already rejected.
CallbackKinds == {"value", "threw", "pending", "resolved", "rejected"}

\* One invocation callback(entity, index): what it did, and the state of
\* its result since.
Invocation(entity, index, kind) ==
    [entity |-> entity, index |-> index, kind |-> kind, result |-> kind]

\* An await that goes on whatever the state of the result.
AwaitGoesOnAlways(call) == TRUE

\* `await x` goes on when x is not a promise, or a promise that resolved.
AwaitGoesOn(call) == call.result \in {"value", "resolved"}

\* sequential() from the head of an iteration of its loop: the callback is
\* invoked on the next entity, or the loop is over and the promise resolves.
SequentialStep(t, kind) ==
    IF t.index = Len(t.items) THEN [t EXCEPT !.pc = "resolved"]
    ELSE LET call == Invocation(t.items[t.index + 1], t.index, kind)
         IN  [t EXCEPT !.calls = Append(@, call),
                       !.pc = IF kind = "threw" THEN "rejected" ELSE "awaiting"]

\* Filtered.sequential up to its first await.
Sequential(items, kind) ==
    /\ iter.mode = "none"
    /\ iter' = SequentialStep([mode |-> "sequential", items |-> items, index |-> 0,
                               calls |-> <<>>, pc |-> "start"], kind)

\* The continuation of `await callback(entity, index)`.
SequentialContinue(kind) ==
    /\ iter.mode = "sequential"
    /\ iter.pc = "awaiting"
    /\ LET last == iter.calls[Len(iter.calls)]
       IN  CASE AwaitGoesOn(last) ->
                  iter' = SequentialStep([iter EXCEPT !.index = @ + 1], kind)
             [] ~AwaitGoesOn(last) /\ last.result = "rejected" ->
                  iter' = [iter EXCEPT !.pc = "rejected"]
             [] OTHER -> FALSE

\* Array.prototype.map over the entities: the callbacks are invoked one
\* after the other, and one that throws ends the map.
RECURSIVE MapCallbacks(_, _, _)
MapCallbacks(items, kinds, calls) ==
    LET i == Len(calls) + 1
    IN  IF i > Len(items) THEN calls
        ELSE IF kinds[i] = "threw"
             THEN Append(calls, Invocation(items[i], i - 1, "threw"))
             ELSE MapCallbacks(items, kinds,
                               Append(calls, Invocation(items[i], i - 1, kinds[i])))

\* A join that settles once no result is pending, and then resolves.
PromiseAllIgnoringRejections(calls) ==
    IF \A i \in 1..Len(calls) : calls[i].result # "pending" THEN "resolved"
    ELSE "pending"

\* Promise.all: rejected once one input is rejected, resolved once all are
\* resolved (an input that is not a promise counts as resolved).
PromiseAll(calls) ==
    IF \E i \in 1..Len(calls) : calls[i].result = "rejected" THEN "rejected"
    ELSE IF \A i \in 1..Len(calls) : calls[i].result \in {"value", "resolved"}
         THEN "resolved"
         ELSE "pending"

\* Filtered.parallel up to its await.
Parallel(items, kinds) ==
    /\ iter.mode = "none"
    /\ LET calls == MapCallbacks(items, kinds, <<>>)
           threw == IF calls = <<>> THEN FALSE ELSE calls[Len(calls)].kind = "threw"
       IN  iter' = [mode |-> "parallel", items |-> items, index |-> Len(calls),
                    calls |-> calls, pc |-> IF threw THEN "rejected" ELSE "joining"]

\* The continuation of `await Promise.all(promises)`.
ParallelContinue ==
    /\ iter.mode = "parallel"
    /\ iter.pc = "joining"
    /\ PromiseAll(iter.calls) # "pending"
    /\ iter' = [iter EXCEPT !.pc = PromiseAll(iter.calls)]

\* A promise that a callback returned settles.
CallbackSettles(i, ok) ==
    /\ iter.mode # "none"
    /\ i \in 1..Len(iter.calls)
    /\ iter.calls[i].result = "pending"
    /\ iter' = [iter EXCEPT !.calls[i].result = IF ok THEN "resolved" ELSE "rejected"]

NextTraversal ==
    \/ /\ iter.mode = "none"
       /\ \E items \in TraversalLists, kind \in CallbackKinds : Sequential(items, kind)
    \/ \E kind \in CallbackKinds : SequentialContinue(kind)
    \/ /\ iter.mode = "none"
       /\ \E items \in TraversalLists :
             \E kinds \in [1..Len(items) -> CallbackKinds] : Parallel(items, kinds)
    \/ ParallelContinue
    \/ \E i \in 1..MaxListed, ok \in BOOLEAN : CallbackSettles(i, ok)

SpecTraversal == Init /\ [][NextTraversal /\ UNCHANGED <<entityVars, execVars, auxVars>>]_vars

----------------------------------------------------------------------------
(* Properties of the execution scheduler (Spec, SpecSetup).                *)

RunIds == 1..Len(runs)

\* The providers create() got from the groups, in the order of the groups,
\* each with the id of the group that contributed it.
RECURSIVE Tagged(_)
Tagged(lists) ==
    IF lists = <<>> THEN <<>>
    ELSE LET first == Head(lists)
         IN  [i \in 1..Len(first.providers) |->
                 [groupId |-> first.groupId, provider |-> first.providers[i]]]
             \o Tagged(Tail(lists))

\* Number of descriptors the first k tagged providers ask for.
RECURSIVE Asked(_, _)
Asked(tagged, k) ==
    IF k = 0 THEN 0 ELSE Asked(tagged, k - 1) + ValueOf(tagged[k].provider.repeat)

SameConfiguration(item, tp, q) ==
    /\ item.system = tp.provider.system
    /\ item.data = tp.provider.data
    /\ item.includes = tp.provider.includes
    /\ item.excludes = tp.provider.excludes
    /\ item.withDisabled = tp.provider.withDisabled
    /\ item.canExecute = tp.provider.canExecute
    /\ item.groupId = tp.groupId
    /\ item.executionId = q

\* C1: when pause() is called on a queue while one of its units is
\* mid-execution, no further descriptor of the queue is started until
\* resume() is called on it: the number started stays what it was.
C1_PauseBoundary ==
    \A q \in DOMAIN hist :
        hist[q].pauseMark # Unset =>
            Len(hist[q].started) = ValueOf(hist[q].pauseMark)

\* C2: a run() that was in progress when stop() acted on its queue never
\* rejects because of the stop (no sentinel, no error of the loop itself),
\* and the queue is no longer registered.
C2_StopAbsorbed ==
    \A r \in RunIds :
        runs[r].stopped =>
            /\ ~hasQueue(runs[r].queue)
            /\ runs[r].pc \in {"execDone", "done"}
                  => runs[r].outcome \in {"ok", "UnitError", "AsyncProhibited"}

\* The queue was run once, never paused or stopped, and every descriptor's
\* canExecute() returns true.
PlainRun(q) ==
    /\ hist[q].runCalls = 1
    /\ ~hist[q].controlled
    /\ \A i \in 1..Len(hist[q].initial) : ValueOf(hist[q].initial[i].canExecute)

\* C3: in a plain run the descriptors started so far are the first ones of
\* the groups' entries taken group by group in the order given to create(),
\* all of them once the run has resolved, and at most one started unit has
\* not yet returned or settled.
C3_QueueOrdering ==
    \A q \in DOMAIN hist :
        PlainRun(q) =>
            LET tagged == Tagged(hist[q].sortedLists)
                started == hist[q].started
            IN  /\ Len(started) <= Asked(tagged, Len(tagged))
                /\ \A k \in 1..Len(tagged) :
                     \A i \in (Asked(tagged, k - 1) + 1)..Asked(tagged, k) :
                        i <= Len(started) => SameConfiguration(started[i], tagged[k], q)
                /\ hist[q].open <= 1
                /\ \A r \in RunIds :
                     runs[r].queue = q /\ runs[r].pc = "done" /\ runs[r].outcome = "ok"
                        => Len(started) = Asked(tagged, Len(tagged))

C3_Witness ==
    \E q \in DOMAIN hist :
        /\ PlainRun(q)
        /\ Len(hist[q].sortedLists) = 2
        /\ Len(hist[q].started) = 3
        /\ \E r \in RunIds :
              /\ runs[r].queue = q /\ runs[r].pc = "done" /\ runs[r].outcome = "ok"
              /\ runs[r].returned = "pending"

\* C4: the queue built by create() consists, for each configuration in
\* order, of exactly `repeat` consecutive descriptors of that configuration
\* and of nothing else.
C4_RepeatExpansion ==
    \A q \in DOMAIN hist :
        LET tagged == Tagged(hist[q].sortedLists)
            initial == hist[q].initial
        IN  /\ Len(initial) = Asked(tagged, Len(tagged))
            /\ \A k \in 1..Len(tagged) :
                 /\ ValueOf(tagged[k].provider.repeat) >= 1
                 /\ \A i \in (Asked(tagged, k - 1) + 1)..Asked(tagged, k) :
                       i <= Len(initial) => SameConfiguration(initial[i], tagged[k], q)

C4_Witness ==
    \E q \in DOMAIN hist :
        \E i \in 1..(Len(hist[q].initial) - 4) :
            /\ hist[q].initial[i + 1].repeat = Given(3)
            /\ hist[q].initial[i + 1] = hist[q].initial[i + 2]
            /\ hist[q].initial[i + 2] = hist[q].initial[i + 3]
            /\ hist[q].initial[i].repeat # Given(3)
            /\ hist[q].initial[i + 4].repeat # Given(3)

\* C5: a run with asyncAllowed = false whose unit returned a pending promise
\* ends rejected with the error that names the unit and the queue; it never
\* resolves and the error is not replaced by another.
C5_AsyncProhibited ==
    \A r \in RunIds :
        ~runs[r].asyncAllowed /\ runs[r].returned = "pending" =>
            /\ runs[r].pc \in {"execDone", "done"}
            /\ runs[r].outcome = "AsyncProhibited"
            /\ runs[r].errSystem = runs[r].item[1].system
            /\ runs[r].errQueue = queues[runs[r].queue].name

C5_Witness ==
    \E r \in RunIds :
        /\ ~runs[r].asyncAllowed /\ runs[r].returned = "pending"
        /\ runs[r].pc = "done"
        /\ Len(hist[runs[r].queue].started) = 2

----------------------------------------------------------------------------
(* Properties of filtering (SpecFilter).                                   *)

\* The entity holds a component of the type in its enabled collection.
HoldsEnabled(ent, type) ==
    \E i \in 1..Len(ent.components) : InstanceOf(ent.components[i], type)

HoldsAll(ent, types) == \A i \in 1..Len(types) : HoldsEnabled(ent, types[i])

HoldsNone(ent, types) == \A i \in 1..Len(types) : ~HoldsEnabled(ent, types[i])

Registered(e) == \E i \in 1..Len(storage) : storage[i] = e

InItems(e) == \E i \in 1..Len(filtered.items) : filtered.items[i] = e

InBase(e) == Registered(e) /\ (filtered.withDisabled \/ entities[e].active)

GivenExcludes(filter) == IF filter.hasExcludes THEN filter.excludes ELSE <<>>

\* C6: an entity qualifies, in isSatisfiedFilter and in the list filter()
\* returns, exactly when it holds all include types enabled and none of the
\* exclude types enabled.
C6_FilterSemantics ==
    filtered.called =>
        \A e \in DOMAIN entities :
            LET qualifies == /\ HoldsAll(entities[e], filtered.filter.includes)
                             /\ HoldsNone(entities[e], GivenExcludes(filtered.filter))
            IN  /\ isSatisfiedFilter(entities[e], filtered.filter) = qualifies
                /\ InItems(e) = (InBase(e) /\ qualifies)

\* C7 as stated: isSatisfiedFilter(E, F) equals
\* E.hasComponents(F.includes) && !E.hasComponents(F.excludes || []).
C7_ReferenceEquality ==
    filtered.called =>
        \A e \in DOMAIN entities :
            isSatisfiedFilter(entities[e], filtered.filter)
                = (/\ hasComponents(entities[e], filtered.filter.includes)
                   /\ ~hasComponents(entities[e], GivenExcludes(filtered.filter)))

\* C7 amended: with a non-empty excludes list isSatisfiedFilter(E, F) equals
\* E.hasComponents(F.includes) && !E.hasComponents(F.excludes); with an empty
\* or missing excludes list it equals E.hasComponents(F.includes).
C7_ReferenceEqualityAmended ==
    filtered.called =>
        \A e \in DOMAIN entities :
            isSatisfiedFilter(entities[e], filtered.filter)
                = IF GivenExcludes(filtered.filter) = <<>>
                  THEN hasComponents(entities[e], filtered.filter.includes)
                  ELSE /\ hasComponents(entities[e], filtered.filter.includes)
                       /\ ~hasComponents(entities[e], GivenExcludes(filtered.filter))

\* A filter with an empty or missing excludes list was evaluated on a
\* registered entity that holds every include type.
C7_Witness ==
    /\ filtered.called
    /\ GivenExcludes(filtered.filter) = <<>>
    /\ filtered.filter.includes # <<>>
    /\ \E e \in DOMAIN entities :
           /\ InItems(e)
           /\ hasComponents(entities[e], filtered.filter.includes)

\* The base population of a filter call, in the registry's iteration order.
RECURSIVE BasePopulation(_, _, _)
BasePopulation(ents, store, withDisabled) ==
    IF store = <<>> THEN <<>>
    ELSE IF withDisabled \/ ents[Head(store)].active
         THEN <<Head(store)>> \o BasePopulation(ents, Tail(store), withDisabled)
         ELSE BasePopulation(ents, Tail(store), withDisabled)

RECURSIVE Satisfying(_, _, _)
Satisfying(ents, population, filter) ==
    IF population = <<>> THEN <<>>
    ELSE IF isSatisfiedFilter(ents[Head(population)], filter)
         THEN <<Head(population)>> \o Satisfying(ents, Tail(population), filter)
         ELSE Satisfying(ents, Tail(population), filter)

\* The storage of the sample scenario: e1:[Position, Health], e2:[Position],
\* e3:[Velocity], all active, registered in this order.
SampleEntities ==
    [e \in {"e1", "e2", "e3"} |->
        [active |-> TRUE,
         components |-> CASE e = "e1" -> <<"Position", "Health">>
                          [] e = "e2" -> <<"Position">>
                          [] e = "e3" -> <<"Velocity">>,
         disabledComponents |-> <<>>]]

SampleFreq == [t \in {"Position", "Health", "Velocity"} |-> IF t = "Position" THEN 2 ELSE 1]

SampleItems ==
    EntityStorageFilter(SampleEntities, <<"e1", "e2", "e3">>, SampleFreq,
                        Filter(<<"Position">>, <<"Velocity">>, TRUE), FALSE).items

\* C8: filter(F, withDisabled) returns exactly the entities of the base
\* population (all registered entities when withDisabled, the active ones
\* otherwise) for which isSatisfiedFilter(F) holds, each once, in the base
\* population's order; the sample scenario returns [e1, e2].
C8_FilterExact ==
    /\ filtered.called =>
           /\ filtered.items =
                  Satisfying(entities,
                             BasePopulation(entities, storage, filtered.withDisabled),
                             filtered.filter)
           /\ \A i, j \in 1..Len(filtered.items) :
                  i # j => filtered.items[i] # filtered.items[j]
    /\ SampleItems = <<"e1", "e2">>

\* A filter call that kept one registered entity and dropped another, the
\* dropped one registered first.
C8_Witness ==
    /\ filtered.called
    /\ Len(storage) = 2
    /\ filtered.items = <<storage[2]>>
    /\ entities[storage[1]].active
    /\ filtered.filter.includes # <<>>
    /\ GivenExcludes(filtered.filter) # <<>>

----------------------------------------------------------------------------
(* Properties of the rarity tracker (SpecEntity, SpecRarity).              *)

\* The entities whose enabled collection holds a component constructed by T.
EnabledHolders(T) ==
    {e \in DOMAIN entities :
        \E i \in 1..Len(entities[e].components) : entities[e].components[i] = T}

\* C9: rarity(T) is the number of entities that hold T in their enabled
\* collection, after any sequence of component operations.
C9_RarityInvariant ==
    \A T \in Ctors : rarity(freq, T) = Cardinality(EnabledHolders(T))

\* C10: starting with T absent from the tracker, after N entities added T
\* enabled rarity(T) = N; after one of them disabled it rarity(T) = N - 1;
\* after each of them removed it rarity(T) = 0 and T has no entry.
C10_RarityScenario ==
    /\ scn.phase = "adding" => rarity(freq, scn.T) = Cardinality(scn.added)
    /\ (scn.phase = "removing" /\ scn.removed = {}) =>
           rarity(freq, scn.T) = Cardinality(scn.added) - 1
    /\ (scn.phase = "removing" /\ scn.removed = scn.added) =>
           /\ rarity(freq, scn.T) = 0
           /\ scn.T \notin DOMAIN freq

\* Three entities added T, one disabled it, all three removed it, while
\* another type was counted by the tracker.
C10_Witness ==
    /\ scn.phase = "removing"
    /\ Cardinality(scn.added) = 3
    /\ scn.removed = scn.added
    /\ freq # <<>>

----------------------------------------------------------------------------
(* Properties of the component collections (SpecEntity, SpecFailFast).     *)

Holds(items, c) == \E i \in 1..Len(items) : items[i] = c

NoRepetition(items) == \A i, j \in 1..Len(items) : i # j => items[i] # items[j]

\* C11: no component type is in both the enabled and the disabled
\* collection of an entity, none occurs twice in one collection, and
\* addComponent of a type that is in either collection fails.
C11_CollectionExclusivity ==
    \A e \in DOMAIN entities :
        LET E == entities[e]
        IN  /\ \A c \in Ctors : ~(Holds(E.components, c) /\ Holds(E.disabledComponents, c))
            /\ NoRepetition(E.components)
            /\ NoRepetition(E.disabledComponents)
            /\ \A c \in Ctors, en \in BOOLEAN :
                  Holds(E.components, c) \/ Holds(E.disabledComponents, c)
                     => addComponent(E, freq, c, en).thrown = "DuplicateComponent"

\* C12: a call that fails leaves the entity's collections, the rarity
\* tracker and the entity storage exactly as they were before the call.
C12_FailBeforeMutation ==
    [][thrown' # "none" =>
          /\ entities' = entities
          /\ freq' = freq
          /\ storage' = storage]_vars

\* A call failed on an entity that holds components, with types counted by
\* the tracker and entities registered.
C12_Witness ==
    /\ thrown \in {"DuplicateComponent", "ComponentNotFound", "ComponentState",
                   "DuplicateEntity"}
    /\ freq # <<>>
    /\ storage # <<>>
    /\ \E e \in DOMAIN entities :
          entities[e].components # <<>> /\ entities[e].disabledComponents # <<>>

----------------------------------------------------------------------------
(* Properties of the controller and the run loop (Spec, SpecUnknown).      *)

UnknownIds == (DOMAIN queues \cup {NeverCreated}) \ registry

\* C13: on an id that is not registered, run() rejects with the
\* queue-not-found error, stop(), pause() and resume() change nothing,
\* getQueueStatus() returns null, and the registry and every queue object
\* are as before the call.
C13_UnknownId ==
    [][\A q \in UnknownIds :
          /\ getQueueStatus(q) = Null
          /\ (Stop(q) \/ Pause(q) \/ Resume(q)) => UNCHANGED vars
          /\ \A a \in BOOLEAN :
                Run(q, a) =>
                   /\ UNCHANGED <<queues, registry, aborted, stack>>
                   /\ Len(runs') = Len(runs) + 1
                   /\ runs'[Len(runs')].pc = "done"
                   /\ runs'[Len(runs')].outcome = "QueueNotFound"
                   /\ \A r \in RunIds : runs'[r] = runs[r]]_vars

\* run() was rejected both on an id never created and on the id of a queue
\* that was stopped, and another run had started a unit by then.
C13_Witness ==
    /\ Len(runs) = 2
    /\ runs[1].queue \in DOMAIN queues /\ runs[1].pc = "awaiting"
    /\ runs[2].queue = NeverCreated /\ runs[2].outcome = "QueueNotFound"
    /\ registry # {}

CompletedRun(q) ==
    \E r \in RunIds : runs[r].queue = q /\ runs[r].pc = "done" /\ runs[r].outcome = "ok"

\* C14: the id of a created queue is registered exactly until a run() of it
\* has resolved or stop()/stopAll() was called on it; a queue neither run
\* nor stopped is as create() set it up; after a run() resolved, hasQueue
\* is false and the id is not among activeQueues.
C14_RegistryLifecycle ==
    \A q \in DOMAIN queues :
        /\ hasQueue(q) <=> (hist[q].stopMark = Unset /\ ~CompletedRun(q))
        /\ (hist[q].runCalls = 0 /\ hist[q].stopMark = Unset) =>
               /\ queues[q].queue = hist[q].initial
               /\ queues[q].currentSystem = Null
               /\ hist[q].started = <<>>
        /\ CompletedRun(q) => (~hasQueue(q) /\ q \notin activeQueues)

\* A run() resolved after a stop() that was called while its unit was
\* awaited, and the queue is no longer registered.
C14_Witness ==
    \E q \in DOMAIN queues :
        /\ ~hasQueue(q)
        /\ \E r \in RunIds :
              /\ runs[r].queue = q /\ runs[r].pc = "done" /\ runs[r].outcome = "ok"
              /\ runs[r].stopped /\ runs[r].returned = "pending"

\* C15: once stop() was called on a queue, no descriptor of the queue that
\* had not been started by then is started.
C15_StopIsImmediate ==
    \A q \in DOMAIN hist :
        hist[q].stopMark # Unset =>
            Len(hist[q].started) = ValueOf(hist[q].stopMark)

\* stop() was called with one descriptor started and others pending, and
\* the run that was in progress has settled.
C15_Witness ==
    \E q \in DOMAIN hist :
        /\ hist[q].stopMark = Given(1)
        /\ Len(hist[q].initial) >= 3
        /\ \E r \in RunIds :
              runs[r].queue = q /\ runs[r].stopped /\ runs[r].pc = "done"

\* C16: a stop() called while a run is suspended - on the promise of an
\* awaited unit or on waitForResume() - ends the suspension: the run is not
\* left suspended by the stop.
C16_StopAbortsSuspension ==
    \A r \in RunIds :
        runs[r].stopped => runs[r].pc \notin {"waitResume", "awaiting"}

\* A unit of the queue is being run: its call has not returned, or its
\* promise is awaited, or the continuation after the wait has not run yet.
UnitInProgress(q) ==
    \E r \in RunIds :
        runs[r].queue = q /\ runs[r].pc \in {"running", "awaiting", "raceDone"}

\* C17: whenever no unit of a queue is being run - between two items and
\* after execute() has returned for any reason - the queue's reference to
\* the currently running unit is null.
C17_CurrentUnitCleared ==
    \A q \in DOMAIN queues :
        ~UnitInProgress(q) => queues[q].currentSystem = Null

\* C18: a step that discards a descriptor whose canExecute() is false
\* leaves the unit contexts, the current-unit reference, the paused flag
\* and what was started as they were, takes nothing else from the pending
\* list, and leaves the loop at its head for the next descriptor.
C18_SkipHasNoSideEffects ==
    [][\A q \in DOMAIN queues :
          (/\ queues[q].queue # <<>>
           /\ ~ValueOf(Head(queues[q].queue).canExecute)
           /\ queues'[q].queue # queues[q].queue
           /\ hist'[q].stopMark = hist[q].stopMark)
          => /\ queues'[q].queue = Tail(queues[q].queue)
             /\ queues'[q].currentSystem = queues[q].currentSystem
             /\ queues'[q].isPaused = queues[q].isPaused
             /\ systems' = systems
             /\ hist'[q].started = hist[q].started
             /\ hist'[q].open = hist[q].open
             /\ stack' # <<>>
             /\ runs'[stack'[Len(stack')]].queue = q
             /\ runs'[stack'[Len(stack')]].pc = "loop"]_vars

\* The first descriptor of the queue was discarded and the three after it
\* were started by the same run.
C18_Witness ==
    \E q \in DOMAIN hist :
        /\ ~ValueOf(hist[q].initial[1].canExecute)
        /\ hist[q].runCalls = 1
        /\ Len(hist[q].started) = 3
        /\ Len(hist[q].initial) = 4
        /\ \A i \in 1..3 : hist[q].started[i] = hist[q].initial[i + 1]

----------------------------------------------------------------------------
(* Properties of the traversals (SpecTraversal).                           *)

\* The callbacks were invoked on the first entities of the list, in list
\* order, each with its entity and its position.
InListOrder ==
    /\ Len(iter.calls) <= Len(iter.items)
    /\ \A i \in 1..Len(iter.calls) :
          iter.calls[i].entity = iter.items[i] /\ iter.calls[i].index = i - 1

\* C19: sequential() invokes the callback on the entities in list order
\* with (entity, index), on the next one only when the result for the one
\* before has settled, and once on each entity when its promise resolves.
C19_SequentialOrder ==
    iter.mode = "sequential" =>
        /\ InListOrder
        /\ \A i \in 1..(Len(iter.calls) - 1) :
              iter.calls[i].result \in {"value", "resolved"}
        /\ iter.pc = "resolved" =>
              /\ Len(iter.calls) = Len(iter.items)
              /\ \A i \in 1..Len(iter.calls) :
                    iter.calls[i].result \in {"value", "resolved"}

\* A list of three was traversed to the end; the first callback returned a
\* pending promise and the second no promise.
C19_Witness ==
    /\ iter.mode = "sequential"
    /\ iter.pc = "resolved"
    /\ Len(iter.items) = 3
    /\ iter.calls[1].kind = "pending"
    /\ iter.calls[2].kind = "value"

\* C20: parallel() invokes the callback on every entity before it waits,
\* and its promise is settled only when the result of every callback is.
C20_ParallelJoin ==
    iter.mode = "parallel" =>
        /\ InListOrder
        /\ iter.pc = "joining" => Len(iter.calls) = Len(iter.items)
        /\ iter.pc \in {"resolved", "rejected"} =>
              \A i \in 1..Len(iter.calls) : iter.calls[i].result # "pending"

\* C20 as the code has it: the callback is invoked on the entities in list
\* order, on every one unless an invocation throws, which rejects the
\* promise without any wait; the promise is resolved only when every
\* result is resolved, and rejected only when an invocation threw or a
\* result is rejected, whether or not other results are still pending.
C20_ParallelJoinAmended ==
    iter.mode = "parallel" =>
        /\ InListOrder
        /\ Len(iter.calls) < Len(iter.items) =>
              iter.calls[Len(iter.calls)].kind = "threw" /\ iter.pc = "rejected"
        /\ iter.pc = "joining" =>
              /\ Len(iter.calls) = Len(iter.items)
              /\ \A i \in 1..Len(iter.calls) : iter.calls[i].kind # "threw"
        /\ iter.pc = "resolved" =>
              /\ Len(iter.calls) = Len(iter.items)
              /\ \A i \in 1..Len(iter.calls) :
                    iter.calls[i].result \in {"value", "resolved"}
        /\ iter.pc = "rejected" =>
              \E i \in 1..Len(iter.calls) :
                    iter.calls[i].result \in {"threw", "rejected"}

\* The callback was invoked on three entities and parallel() is rejected
\* by the result of the second while the result of the third is pending.
C20_Witness ==
    /\ iter.mode = "parallel"
    /\ iter.pc = "rejected"
    /\ Len(iter.calls) = 3
    /\ iter.calls[1].result = "resolved" /\ iter.calls[1].kind = "pending"
    /\ iter.calls[2].result = "rejected"
    /\ iter.calls[3].result = "pending"

----------------------------------------------------------------------------
(* SpecOrder: a setup() that returns up to MaxCalls providers, with and    *)
(* without orders, and the sorted() that orders them by number.            *)

Orders == {Unset, Given(0), Given(0 - 5), Given(orderStep), Given(15000),
           Given(2 * orderStep)}

OrderOptions ==
    { NoOptions,
      [NoOptions EXCEPT !.repeat = Given(0)],
      [id |-> Given("x"), withDisabled |-> Given(TRUE),
       includes |-> Given(<<"Position">>), excludes |-> Given(<<"Position3D">>),
       repeat |-> Given(2), canExecute |-> Given(FALSE)] }

\* One more provider in the array setup() returns; its data is its place
\* in the declaration.
Declare(options, order) ==
    /\ ~chain.sortedCalled
    /\ chain.calls < MaxCalls
    /\ LET provider == [id |-> options.id, withDisabled |-> options.withDisabled,
                        includes |-> options.includes, excludes |-> options.excludes,
                        repeat |-> options.repeat, canExecute |-> options.canExecute,
                        system |-> "A", data |-> chain.calls + 1, order |-> order]
       IN  chain' = [chain EXCEPT !.providers = Append(@, provider),
                                  !.ref = Append(@, provider),
                                  !.calls = @ + 1]
    /\ UNCHANGED <<sgn, life>>

\* sorted() of the variant with orders, on the array setup() returned.
SortedByOrder ==
    /\ ~chain.sortedCalled
    /\ \E providers \in {sortedByOrder(chain.providers)} :
          chain' = [chain EXCEPT !.providers = providers, !.handed = providers,
                                 !.sortedCalled = TRUE]
    /\ UNCHANGED <<sgn, life>>

NextOrder ==
    \/ \E options \in OrderOptions, order \in Orders : Declare(options, order)
    \/ SortedByOrder

SpecOrder == Init /\ [][NextOrder /\ UNCHANGED <<entityVars, execVars, iterVars>>]_vars

\* A group of either variant: what is declared so far decides which
\* sorted() the group has.
WithOrders ==
    /\ Len(chain.ref) = chain.calls
    /\ \A i \in 1..Len(chain.ref) : "order" \in DOMAIN chain.ref[i]
WithoutOrders == \A i \in 1..Len(chain.ref) : "order" \notin DOMAIN chain.ref[i]

NextSorted ==
    \/ WithoutOrders /\ chain.ref = chain.providers /\ NextChain
    \/ WithOrders /\ NextOrder

SpecSorted == Init /\ [][NextSorted /\ UNCHANGED <<entityVars, execVars, iterVars>>]_vars

----------------------------------------------------------------------------
(* Properties of the chain and of sorted() (SpecChain, SpecOrder,          *)
(* SpecSorted).                                                            *)

SameEntry(a, b) == a.id = b.id /\ a.system = b.system /\ a.data = b.data

\* C21: after any sequence of calls the entries of the chain are those of
\* the list the corresponding list operations give, a call naming an id no
\* entry has changes nothing, and sorted() returns the entries in the
\* order of the chain.
C21_ChainOrdering ==
    /\ ~chain.sortedCalled => chain.providers = chain.ref
    /\ chain.sortedCalled =>
          /\ Len(chain.handed) = Len(chain.ref)
          /\ \A i \in 1..Len(chain.ref) : SameEntry(chain.handed[i], chain.ref[i])

\* sorted() returned three entries: the one inserted after the first of
\* two entries with id "x", between the two.
C21_Witness ==
    /\ chain.sortedCalled
    /\ Len(chain.handed) = 3
    /\ chain.handed[1].id = Given("x") /\ chain.handed[1].data = 1
    /\ chain.handed[2].data = 3 /\ chain.handed[2].system = "C"
    /\ chain.handed[3].id = Given("x") /\ chain.handed[3].data = 2

\* The order of the entry sorted() returned at place i.
OrderAt(i) == ValueOf(chain.handed[i].order)

\* The entry as setup() declared it.
Declared(i) == chain.ref[chain.handed[i].data]

\* C22: the sorted() that orders by number returns every declared provider
\* once; one declared without an order has (index + 1) * 10000; the orders
\* are non-decreasing; providers of equal order are in declaration order;
\* and when no provider declares an order the list is in declaration order.
C22_ExplicitOrder ==
    chain.sortedCalled =>
      LET n == Len(chain.handed) IN
      /\ n = Len(chain.ref)
      /\ \A i \in 1..n : chain.handed[i].data \in 1..n
      /\ \A i, j \in 1..n : i # j => chain.handed[i].data # chain.handed[j].data
      /\ \A i \in 1..n :
            /\ chain.handed[i].order # Unset
            /\ OrderAt(i) = IF Declared(i).order = Unset
                            THEN chain.handed[i].data * 10000
                            ELSE ValueOf(Declared(i).order)
      /\ \A i \in 1..(n - 1) : OrderAt(i) <= OrderAt(i + 1)
      /\ \A i, j \in 1..n :
            i < j /\ OrderAt(i) = OrderAt(j)
               => chain.handed[i].data < chain.handed[j].data
      /\ (\A i \in 1..n : chain.ref[i].order = Unset)
            => \A i \in 1..n : chain.handed[i].data = i

\* Three providers declared with orders 20000, none (20000 by default) and
\* 10000 are returned as the third, the first and the second.
C22_Witness ==
    /\ chain.sortedCalled
    /\ Len(chain.ref) = 3
    /\ chain.ref[1].order = Given(20000)
    /\ chain.ref[2].order = Unset
    /\ chain.ref[3].order = Given(10000)
    /\ chain.handed[1].data = 3 /\ chain.handed[2].data = 1
    /\ chain.handed[3].data = 2

\* The entry of the group that sorted() returned at place i.
Origin(i) ==
    IF "order" \in DOMAIN chain.handed[i] THEN Declared(i) ELSE chain.ref[i]

OrDefault(given, default) == IF given = Unset THEN Given(default) ELSE given

\* C23: every provider sorted() returns, in either variant, has
\* withDisabled, includes, excludes, repeat and canExecute defined: the
\* value the group gave (a repeat of at least 1), or else false, [], [],
\* 1 and the function that returns true.
C23_Defaults ==
    chain.sortedCalled =>
      \A i \in 1..Len(chain.handed) :
        LET got == chain.handed[i]
            from == Origin(i)
        IN  /\ got.withDisabled = OrDefault(from.withDisabled, FALSE)
            /\ got.includes = OrDefault(from.includes, <<>>)
            /\ got.excludes = OrDefault(from.excludes, <<>>)
            /\ got.canExecute = OrDefault(from.canExecute, TRUE)
            /\ from.repeat = Unset => got.repeat = Given(1)
            /\ (from.repeat # Unset /\ from.repeat # Given(0))
                  => got.repeat = from.repeat
            /\ got.repeat # Unset

\* sorted() returned a provider that gave every field after one that gave
\* none, in the variant without orders.
C23_Witness ==
    /\ chain.sortedCalled
    /\ Len(chain.handed) = 2
    /\ "order" \notin DOMAIN chain.handed[1]
    /\ chain.ref[1].withDisabled = Unset /\ chain.ref[1].repeat = Unset
    /\ chain.handed[1].repeat = Given(1)
    /\ chain.handed[1].includes = Given(<<>>)
    /\ chain.handed[2].repeat = Given(2)
    /\ chain.ref[2].repeat = Given(2)

----------------------------------------------------------------------------
(* Groups across create() calls (SpecSetup).                               *)

\* C24: the providers a group hands to a create() are those its setup()
\* added in this call, with this call's data, whatever earlier calls left
\* in the chain of the cached group; the queue is made of them alone; and
\* the pending list of every queue is as its own create() left it.
C24_SetupPerCreate ==
    \A q \in DOMAIN hist :
        LET input == hist[q].input
            tagged == Tagged(hist[q].sortedLists)
        IN  /\ queues[q].queue = hist[q].initial
            /\ Len(hist[q].initial) = Asked(tagged, Len(tagged))
            /\ \A i \in 1..Len(input.groups) :
                  LET calls == GroupSetup(input.groups[i], input.data)
                      got == hist[q].sortedLists[i].providers
                  IN  /\ Len(got) = Len(calls)
                      /\ \A k \in 1..Len(calls) :
                            /\ got[k].system = calls[k].system
                            /\ got[k].data = calls[k].data

\* Two queues created from the same group, with "d1" and then "d2": four
\* descriptors each, the first queue's still with "d1".
C24_Witness ==
    \E q1, q2 \in DOMAIN hist :
        /\ hist[q1].input.groups = <<"G3">> /\ hist[q1].input.data = "d1"
        /\ hist[q2].input.groups = <<"G3">> /\ hist[q2].input.data = "d2"
        /\ Len(queues[q1].queue) = 4 /\ Len(queues[q2].queue) = 4
        /\ queues[q1].queue[2].data = "d1"
        /\ queues[q2].queue[2].data = "d2"

----------------------------------------------------------------------------
(* The tracker's entries (SpecEntity).                                     *)

\* C25: every count the tracker stores is at least 1; rarity(T) is never
\* negative and is 0 exactly when T has no entry; and a decrement deletes
\* an entry of 1, lowers a greater one by 1 and leaves the tracker as it
\* is when the type has no entry.
C25_TrackerPositive ==
    /\ \A T \in DOMAIN freq : freq[T] \in Nat /\ freq[T] >= 1
    /\ \A T \in Ctors :
          /\ rarity(freq, T) >= 0
          /\ rarity(freq, T) = 0 <=> T \notin DOMAIN freq
          /\ LET after == decrement(freq, T)
             IN  IF T \notin DOMAIN freq THEN after = freq
                 ELSE IF freq[T] = 1
                      THEN /\ T \notin DOMAIN after
                           /\ \A U \in DOMAIN freq \ {T} :
                                 U \in DOMAIN after /\ after[U] = freq[U]
                      ELSE after = [freq EXCEPT ![T] = freq[T] - 1]

\* Position has no entry although an entity holds it disabled (its count
\* was taken down, or there was none to take down), and Position3D is
\* counted twice.
C25_Witness ==
    /\ "Position" \notin DOMAIN freq
    /\ \E e \in DOMAIN entities :
          CollectionHas(entities[e].disabledComponents, "Position")
    /\ "Position3D" \in DOMAIN freq /\ freq["Position3D"] = 2

----------------------------------------------------------------------------
(* What a filter call leaves alone (SpecFilter).                           *)

\* The counts a tracker can hold for the component types.
Trackers ==
    UNION {[types -> 1..MaxCount] : types \in SUBSET Ctors}

\* C26: a filter call changes neither the registry, nor an entity's active
\* flag or collections, nor the tracker, nor the order of the includes and
\* excludes lists of the filter it was given; and the list it returns is
\* the one it returns for the same entities, registry and filter under any
\* other counts of the tracker.
C26_FilterReadOnly ==
    [][(~filtered.called /\ filtered'.called) =>
          /\ storage' = storage
          /\ entities' = entities
          /\ freq' = freq
          /\ filtered'.after.includes = filtered'.filter.includes
          /\ filtered'.filter.hasExcludes
                => filtered'.after.excludes = filtered'.filter.excludes
          /\ \A f \in Trackers :
                EntityStorageFilter(entities, storage, f, filtered'.filter,
                                    filtered'.withDisabled).items = filtered'.items
      ]_vars

\* A filter call whose includes list the tracker puts in the other order,
\* with a registered entity kept and one dropped.
C26_Witness ==
    /\ filtered.called
    /\ Len(filtered.filter.includes) = 2
    /\ sortByRarity(freq, filtered.filter.includes) # filtered.filter.includes
    /\ filtered.after.includes = filtered.filter.includes
    /\ Len(filtered.items) = 1
    /\ Len(storage) = 2

----------------------------------------------------------------------------
(* Two queues side by side (SpecPair).                                     *)

\* The runs of queue q.
RunsOf(q) == {r \in 1..Len(runs) : runs[r].queue = q}

\* C27: stop(a), pause(a) and resume(a) leave every other queue b as it
\* was: registered if it was, with its pending list, paused flag and
\* controller, its signal not fired, and each of its runs where it was
\* (a run waiting on a unit or on resume() is still waiting).
C27_NoCrossSignal ==
    [][\A a \in DOMAIN queues :
          (Stop(a) \/ Pause(a) \/ Resume(a)) =>
             \A b \in DOMAIN queues \ {a} :
                /\ b \in registry => b \in registry'
                /\ queues'[b] = queues[b]
                /\ queues[b].abortController \notin aborted
                      => queues'[b].abortController \notin aborted'
                /\ \A r \in RunsOf(b) : runs'[r] = runs[r]
      ]_vars

\* Queue a was stopped while its run waited on a unit; queue b, paused
\* with a run waiting for resume(), is still registered and waiting.
C27_Witness ==
    \E a, b \in DOMAIN queues :
        /\ a # b
        /\ hist[a].stopMark # Unset
        /\ \E r \in RunsOf(a) : runs[r].stopped
        /\ b \in registry
        /\ queues[b].isPaused
        /\ \E r \in RunsOf(b) : runs[r].pc = "waitResume"

----------------------------------------------------------------------------
(* Signal.once (SpecSignal).                                               *)

\* C28: a callback given to once() is called for at most one dispatch, and
\* is not among the listeners once a dispatch that called it has completed.
C28_OnceAtMostOnce ==
    /\ \A c \in sgn.onceCallbacks : sgn.invoked[c] <= 1
    /\ \A d \in 1..Len(sgn.dispatches) :
          sgn.dispatches[d].pc = "done" =>
             \A i \in 1..Len(sgn.listeners) :
                sgn.listeners[i].callback \notin sgn.dispatches[d].onceListeners

----------------------------------------------------------------------------
(* The update loop (SpecLifeCycle).                                        *)

\* C29: once started, a loop that is not paused has its next frame asked
\* for, so that the frames after pause(false) call the update callbacks,
\* whether or not animate() was called while the loop was paused.
C29_PauseResume ==
    (life.started /\ ~life.paused) => life.requested > 0

----------------------------------------------------------------------------
(* The loop and the paused flag (Spec).                                    *)

\* C30: a descriptor is taken from the queue and started only in a step
\* in which the paused flag of the queue is false.
C30_NoDequeueWhilePaused ==
    [][\A q \in DOMAIN hist :
          Len(hist'[q].started) > Len(hist[q].started) => ~queues[q].isPaused
      ]_vars

----------------------------------------------------------------------------
(* Runs of one queue (Spec).                                               *)

\* C31: at most one unit of a queue is in flight at any time, and the
\* descriptors started are, in order and each once, descriptors of the
\* list the queue was created with.
C31_OneUnitInFlight ==
    \A q \in DOMAIN hist :
        /\ hist[q].open <= 1
        /\ \E pick \in SUBSET (1..Len(hist[q].initial)) :
              /\ Cardinality(pick) = Len(hist[q].started)
              /\ \A i \in 1..Len(hist[q].started) :
                    \E k \in pick :
                       /\ Cardinality({j \in pick : j <= k}) = i
                       /\ hist[q].started[i] = hist[q].initial[k]

----------------------------------------------------------------------------
(* The context of a unit (SpecPair).                                       *)

\* C32: while a unit runs for a descriptor, in its synchronous part or
\* suspended on its promise, the context of its instance is the one bound
\* from that descriptor.
C32_ContextIsolation ==
    \A r \in 1..Len(runs) :
        runs[r].pc \in {"running", "awaiting"} =>
            LET item == runs[r].item[1]
            IN  /\ systems[item.system].groupId = item.groupId
                /\ systems[item.system].executionId = item.executionId

----------------------------------------------------------------------------
(* forceStop() (SpecPair).                                                 *)

\* this._currentSystem?.forceStop(): the instance stop() calls it on.
forceStopTarget(q) == queues[q].currentSystem

\* The runs in which the instance of a unit class is in flight.
InFlight(system) ==
    {r \in 1..Len(runs) :
        /\ runs[r].pc \in {"running", "awaiting", "raceDone"}
        /\ runs[r].item[1].system = system}

\* C33: stop(a) calls forceStop() only on the unit that a run of a is
\* running at that moment, and never on an instance that is in flight for
\* another queue.
C33_ForceStopTarget ==
    [][\A a \in registry :
          (Stop(a) /\ forceStopTarget(a) # Null) =>
             /\ \E r \in InFlight(forceStopTarget(a)) : runs[r].queue = a
             /\ \A r \in InFlight(forceStopTarget(a)) : runs[r].queue = a
      ]_vars

----------------------------------------------------------------------------
(* The AbortController of a queue (Spec).                                  *)

\* C34: execute() never reads the signal of a controller that is null: no
\* run fails with the TypeError of that read, at the aborted test or at
\* the registration of the abort listener.
C34_ControllerNotNull ==
    \A r \in 1..Len(runs) : runs[r].outcome # "TypeError"

----------------------------------------------------------------------------
(* The end of a run (SpecLive).                                            *)

\* The r-th call of run() was made.
Called(r) == r \in 1..Len(runs)

\* The descriptors of the list whose canExecute() returns true.
Runnable(items) == SelectSeq(items, LAMBDA item : ValueOf(item.canExecute))

\* The r-th run() resolved, the pending list of its queue is empty and the
\* descriptors started are those whose canExecute() returned true, each
\* once and in order.
Resolved(r) ==
    /\ r \in 1..Len(runs)
    /\ runs[r].pc = "done" /\ runs[r].outcome = "ok"
    /\ queues[runs[r].queue].queue = <<>>
    /\ hist[runs[r].queue].started = Runnable(hist[runs[r].queue].initial)

\* A unit threw, or returned a promise with asyncAllowed = false.
UnitFailed ==
    \E r \in 1..Len(runs) : runs[r].outcome \in {"UnitError", "AsyncProhibited"}

----------------------------------------------------------------------------
(* A run that failed (Spec).                                               *)

\* The runs that ended rejected because of a unit.
FailedRuns ==
    {r \in 1..Len(runs) :
        runs[r].pc = "done" /\ runs[r].outcome \in {"UnitError", "AsyncProhibited"}}

IsPrefix(s, t) == Len(s) <= Len(t) /\ s = SubSeq(t, 1, Len(s))

\* C36: after a run() rejected because of a unit, the queue is registered
\* as long as it is not stopped and no other run of it resolved; if that
\* run was the only one, the unit is the last one started and the
\* descriptors after it are pending; and whatever is started later is the
\* next of those descriptors, in order.
C36_FailedRunKeepsQueue ==
    \A r \in FailedRuns :
        LET q == runs[r].queue
            initial == hist[q].initial
            k == Len(initial) - Len(queues[q].queue)
        IN  /\ (hist[q].stopMark = Unset /\ ~CompletedRun(q)) => hasQueue(q)
            /\ (hist[q].stopMark = Unset /\ hist[q].runCalls = 1) =>
                  /\ k >= 1
                  /\ initial[k] = runs[r].item[1]
                  /\ hist[q].started[Len(hist[q].started)] = runs[r].item[1]
                  /\ queues[q].queue = SubSeq(initial, k + 1, Len(initial))
            /\ hist[q].stopMark = Unset =>
                  /\ IsPrefix(hist[q].started, Runnable(initial))
                  /\ IsPrefix(Runnable(queues[q].queue),
                              SubSeq(Runnable(initial), Len(hist[q].started) + 1,
                                     Len(Runnable(initial))))

\* The first run() rejected because unit A threw; a second run() resolved
\* after it started the rest.
C36_Witness ==
    /\ Len(runs) = 2
    /\ 1 \in FailedRuns /\ runs[1].returned = "throw"
    /\ runs[2].queue = runs[1].queue
    /\ runs[2].pc = "done" /\ runs[2].outcome = "ok"
    /\ hist[runs[1].queue].started = Runnable(hist[runs[1].queue].initial)
    /\ Len(hist[runs[1].queue].started) = 3

----------------------------------------------------------------------------
(* The ids of the entries of a chain (SpecChain).                          *)

\* C37: a replace() on an id the chain has leaves the length of the chain
\* and every other entry as they were, puts the new system at the place
\* of the target, and the chain still has the id; and after any call
\* every entry of the chain has an id.
C37_ReplaceKeepsId ==
    [][\A call \in ChainCalls(chain.calls + 1) :
          ChainOp(call) =>
             /\ \A i \in 1..Len(chain'.providers) : chain'.providers[i].id # Unset
             /\ (call.op = "replace" /\ ChainHas(chain.providers, call.target)) =>
                   LET k == FindIndex(chain.providers, call.target)
                   IN  /\ Len(chain'.providers) = Len(chain.providers)
                       /\ \A i \in 1..Len(chain.providers) :
                             i # k => chain'.providers[i] = chain.providers[i]
                       /\ chain'.providers[k].system = call.system
                       /\ ChainHas(chain'.providers, call.target)
      ]_vars

----------------------------------------------------------------------------
(* Lookup and deletion in a collection (SpecEntity).                       *)

\* ComponentCollection.delete returns !!component.
CollectionDeleteReturns(items, type) == CollectionGet(items, type) # Undefined

\* C38: in every collection of every entity, a delete(type) that returns
\* true leaves a collection in which has(type) is false; so a component
\* that removeComponent, enableComponent or disableComponent took from a
\* collection is not found in it afterwards.
C38_LookupDeletionAgree ==
    \A e \in DOMAIN entities, type \in Ctors :
        LET E == entities[e]
        IN  /\ \A items \in {E.components, E.disabledComponents} :
                  CollectionDeleteReturns(items, type)
                     => ~CollectionHas(CollectionDelete(items, type), type)
            /\ removeComponent(E, freq, type).thrown = "none"
                  => LET after == removeComponent(E, freq, type).entity
                     IN  \/ ~CollectionHas(after.components, type)
                         \/ /\ after.components = E.components
                            /\ ~CollectionHas(after.disabledComponents, type)
            /\ disableComponent(E, freq, type).thrown = "none"
                  => ~CollectionHas(disableComponent(E, freq, type).entity.components,
                                    type)
            /\ enableComponent(E, freq, type).thrown = "none"
                  => ~CollectionHas(
                        enableComponent(E, freq, type).entity.disabledComponents, type)

----------------------------------------------------------------------------
(* Disabling and enabling again (SpecEntity).                              *)

Members(items) == {items[i] : i \in 1..Len(items)}

\* C39: for an entity that holds T enabled, disableComponent(T) and then
\* enableComponent(T) both succeed and leave the same components enabled,
\* none of them twice, the same ones disabled, and rarity(T) as it was;
\* for an entity without disabled components, disableAllComponents() and
\* then enableAllComponents() leave the same components enabled and every
\* count of the tracker as it was.
C39_DisableEnableRoundTrip ==
    \A e \in DOMAIN entities :
        LET E == entities[e]
        IN  /\ \A T \in Ctors :
                  Holds(E.components, T) =>
                     LET off == disableComponent(E, freq, T)
                         on == enableComponent(off.entity, off.freq, T)
                     IN  /\ off.thrown = "none" /\ on.thrown = "none"
                         /\ Members(on.entity.components) = Members(E.components)
                         /\ Len(on.entity.components) = Len(E.components)
                         /\ on.entity.disabledComponents = E.disabledComponents
                         /\ rarity(on.freq, T) = rarity(freq, T)
            /\ E.disabledComponents = <<>> =>
                  LET off == disableAllComponents(E, freq)
                      on == enableAllComponents(off.entity, off.freq)
                  IN  /\ Members(on.entity.components) = Members(E.components)
                      /\ Len(on.entity.components) = Len(E.components)
                      /\ on.entity.disabledComponents = <<>>
                      /\ \A T \in Ctors : rarity(on.freq, T) = rarity(freq, T)

====
